---- MODULE Spec2Model ----
(***************************************************************************)
(* Movement classification and stock ledgers of the HVDC warehouse         *)
(* analysis:                                                               *)
(*   - hvdc_ontology_pipeline.py: the loader's _process_warehouse_file,    *)
(*     create_transaction_log, calculate_daily_stock,                      *)
(*     validate_stock_integrity, analyze_dead_stock, create_monthly_summary*)
(*     (the case-timeline path);                                           *)
(*   - "HVDC analysis.py" (src/unnamed/part_000): map_loc, map_site,       *)
(*     DataExtractor.extract_case_movements, StockEngine.stock_daily,      *)
(*     reconcile, create_proper_monthly_warehouse_analysis and             *)
(*     validate_stock_logic;                                               *)
(*   - inventory_validation.py: InventoryValidator.                        *)
(* Timestamps are counted in ticks; a day has TicksPerDay ticks and a      *)
(* month DaysPerMonth days.  Quantities are integers.                      *)
(***************************************************************************)
EXTENDS Integers, Sequences, FiniteSets, TLC

VARIABLES
    pc,                   \* position of the run
    raw_events,           \* pipeline: the movement events handed to create_transaction_log
    transaction_log,      \* pipeline: the DataFrame returned by create_transaction_log
    daily_stock,          \* pipeline: the DataFrame returned by calculate_daily_stock
    df,                   \* analysis: the movement records (all_movements) of main
    engine_daily,         \* analysis: the DataFrame returned by StockEngine.stock_daily
    monthly_stock_detail, \* analysis: 'monthly_stock_detail' of create_proper_monthly_warehouse_analysis
    current_date,         \* pipeline: datetime.now() as analyze_dead_stock read it
    dead_stock,           \* pipeline: the DataFrame returned by analyze_dead_stock
    warehouse_monthly,    \* the dict handed to StockEngine.validate_stock_logic
    validation_result,    \* the dict returned by StockEngine.validate_stock_logic
    onhand_movements,     \* analysis: the snapshot handed to StockEngine.reconcile, with its type
    reconcile_result,     \* analysis: what StockEngine.reconcile returned, or that it raised
    raw_code,             \* the argument of map_loc
    canonical,            \* what map_loc returned
    candidates,           \* the arguments of map_site: <<site_col, loc_to, loc_from>>
    site,                 \* what map_site returned
    sheet,                \* the table read from one Excel file, with the columns the extractor found
    movements,            \* the movement events an extractor returned for sheet
    test_data,            \* the rows and the initial stock handed to validate_inventory_calculation
    validation_results,   \* what validate_inventory_calculation returned
    integrity_results,    \* pipeline: the dict returned by validate_stock_integrity
    monthly_summary       \* pipeline: the DataFrame returned by create_monthly_summary

vars == <<pc, raw_events, transaction_log, daily_stock, df, engine_daily, monthly_stock_detail,
          current_date, dead_stock, warehouse_monthly, validation_result,
          onhand_movements, reconcile_result, raw_code, canonical, candidates, site,
          sheet, movements, test_data, validation_results, integrity_results, monthly_summary>>

\* the variables of the snapshot comparison and of the location mapping
snapshot_vars == <<onhand_movements, reconcile_result>>
mapping_vars == <<raw_code, canonical>>
site_vars == <<candidates, site>>
extractor_vars == <<sheet, movements>>
inventory_vars == <<test_data, validation_results>>
summary_vars == <<integrity_results, monthly_summary>>

----------------------------------------------------------------------------
(* Bounds of the model *)

MaxEvents == 2      \* rows of an input table
TicksPerDay == 2    \* distinct times of day
DaysPerMonth == 2   \* days of a month

Cases == {"C1", "C2"}

\* A missing cell (None / NaN / pd.NA)
NA == "<NA>"

----------------------------------------------------------------------------
(* Strings.  Python compares and searches strings by their characters:     *)
(* Chars gives the characters of every name the model uses.                *)

Chars ==
    [n \in {"C1", "C2", "DSV Indoor", "DSV Outdoor", "MIR", "UNKNOWN", "UNK", "WAREHOUSE", "SOURCE"} |->
        CASE n = "C1"          -> <<"C","1">>
          [] n = "C2"          -> <<"C","2">>
          [] n = "DSV Indoor"  -> <<"D","S","V"," ","I","n","d","o","o","r">>
          [] n = "DSV Outdoor" -> <<"D","S","V"," ","O","u","t","d","o","o","r">>
          [] n = "MIR"         -> <<"M","I","R">>
          [] n = "UNKNOWN"     -> <<"U","N","K","N","O","W","N">>
          [] n = "UNK"         -> <<"U","N","K">>
          [] n = "WAREHOUSE"   -> <<"W","A","R","E","H","O","U","S","E">>
          [] n = "SOURCE"      -> <<"S","O","U","R","C","E">>]

\* str.upper() of one character
UpperChar(c) ==
    CASE c = "n" -> "N" [] c = "d" -> "D" [] c = "o" -> "O" [] c = "r" -> "R"
      [] c = "u" -> "U" [] c = "t" -> "T"
      [] OTHER -> c

Upper(s) == [i \in 1..Len(s) |-> UpperChar(s[i])]

\* Python's `sub in s`
Contains(sub, s) ==
    \E i \in 1..(Len(s) - Len(sub) + 1) : SubSeq(s, i, i + Len(sub) - 1) = sub

\* code point order of the characters the names use (space, digits, upper case, lower case)
CharOrder ==
    <<" ", "1", "2", "A", "C", "D", "E", "H", "I", "K", "M", "N", "O", "R", "S", "U", "V", "W",
      "d", "n", "o", "r", "t", "u">>

CharRank(c) == CHOOSE i \in 1..Len(CharOrder) : CharOrder[i] = c

\* Python's a < b on strings
RECURSIVE SeqLess(_, _)
SeqLess(a, b) ==
    IF b = <<>> THEN FALSE
    ELSE IF a = <<>> THEN TRUE
    ELSE IF a[1] = b[1] THEN SeqLess(Tail(a), Tail(b))
    ELSE CharRank(a[1]) < CharRank(b[1])

StrLess(a, b) == SeqLess(Chars[a], Chars[b])

----------------------------------------------------------------------------
(* hvdc_ontology_pipeline.py *)

\* site_patterns of normalize_site_name, in dict order
SitePatterns ==
    << <<"AGI", <<"A","G","I">> >>,
       <<"DAS", <<"D","A","S">> >>,
       <<"MIR", <<"M","I","R">> >>,
       <<"SHU", <<"S","H","U">> >> >>

\* normalize_site_name with the lower-case patterns of the column matcher,
\* tested against the upper-cased name
normalize_site_name_LowerPatterns(raw_name) ==
    IF raw_name = NA THEN "UNK"
    ELSE LET name_upper == Upper(Chars[raw_name])
             lower == << <<"AGI", <<"a","g","i">> >>, <<"DAS", <<"d","a","s">> >>,
                         <<"MIR", <<"m","i","r">> >>, <<"SHU", <<"s","h","u">> >> >>
             hits == {i \in 1..Len(lower) : Contains(lower[i][2], name_upper)}
         IN  IF hits = {} THEN "UNK"
             ELSE lower[CHOOSE i \in hits : \A j \in hits : i <= j][1]

normalize_site_name(raw_name) ==
    IF raw_name = NA THEN "UNK"
    ELSE LET name_upper == Upper(Chars[raw_name])
             hits == {i \in 1..Len(SitePatterns) : Contains(SitePatterns[i][2], name_upper)}
         IN  IF hits = {} THEN "UNK"
             ELSE SitePatterns[CHOOSE i \in hits : \A j \in hits : i <= j][1]

\* DataFrame.sort_values(['Case_No', 'Date']): ascending, and stable (a sort on
\* several columns is a lexsort, which keeps equal keys in input order)
KeyLess(a, b) ==
    \/ StrLess(a.Case_No, b.Case_No)
    \/ a.Case_No = b.Case_No /\ a.Date < b.Date

\* InsertSorted of a sort that is not stable: equal keys end up in reverse input order
RECURSIVE InsertSorted_Unstable(_, _)
InsertSorted_Unstable(x, s) ==
    IF s = <<>> THEN <<x>>
    ELSE IF ~KeyLess(s[1], x) THEN <<x>> \o s
    ELSE <<s[1]>> \o InsertSorted_Unstable(x, Tail(s))

RECURSIVE InsertSorted(_, _)
InsertSorted(x, s) ==
    IF s = <<>> THEN <<x>>
    ELSE IF KeyLess(x, s[1]) THEN <<x>> \o s
    ELSE <<s[1]>> \o InsertSorted(x, Tail(s))

\* sort_values that leaves the rows in input order
sort_values_InputOrder(s) == s

RECURSIVE sort_values(_)
sort_values(s) ==
    IF s = <<>> THEN <<>>
    ELSE InsertSorted(s[Len(s)], sort_values(SubSeq(s, 1, Len(s) - 1)))

\* The transactions of row k of the sorted events: the IN at the row's location
\* and, for every row but the first of its case group, the OUT at the previous
\* row's location.  Tx_ID is case, timestamp (to the second) and direction.
\* RowTransactions over the whole sorted frame instead of the case's group: only
\* the first row of the frame counts as a first visit
RowTransactions_NoGroup(events, k) ==
    LET row == events[k]
        first == k = 1
        loc_from == IF first THEN "SOURCE" ELSE events[k - 1].Location
        loc_to == row.Location
        site_name == normalize_site_name(loc_to)
        tx_in == [Tx_ID |-> <<row.Case_No, row.Date, "IN">>,
                  Case_No |-> row.Case_No, Date |-> row.Date, Qty |-> row.Qty,
                  TxType |-> "IN", TxType_Refined |-> "IN",
                  Loc_From |-> loc_from, Loc_To |-> loc_to,
                  Location |-> loc_to, Site |-> normalize_site_name(loc_to)]
        tx_out == [Tx_ID |-> <<row.Case_No, row.Date, "OUT">>,
                   Case_No |-> row.Case_No, Date |-> row.Date, Qty |-> row.Qty,
                   TxType |-> "OUT",
                   TxType_Refined |-> IF site_name # "UNK" THEN "FINAL_OUT" ELSE "TRANSFER_OUT",
                   Loc_From |-> loc_from, Loc_To |-> loc_to,
                   Location |-> loc_from, Site |-> site_name]
    IN  IF first THEN <<tx_in>> ELSE <<tx_in, tx_out>>

\* RowTransactions with the OUT booked at the destination instead of the origin
RowTransactions_OutAtDestination(events, k) ==
    LET row == events[k]
        first == k = 1 \/ events[k - 1].Case_No # row.Case_No
        loc_from == IF first THEN "SOURCE" ELSE events[k - 1].Location
        loc_to == row.Location
        site_name == normalize_site_name(loc_to)
        tx_in == [Tx_ID |-> <<row.Case_No, row.Date, "IN">>,
                  Case_No |-> row.Case_No, Date |-> row.Date, Qty |-> row.Qty,
                  TxType |-> "IN", TxType_Refined |-> "IN",
                  Loc_From |-> loc_from, Loc_To |-> loc_to,
                  Location |-> loc_to, Site |-> normalize_site_name(loc_to)]
        tx_out == [Tx_ID |-> <<row.Case_No, row.Date, "OUT">>,
                   Case_No |-> row.Case_No, Date |-> row.Date, Qty |-> row.Qty,
                   TxType |-> "OUT",
                   TxType_Refined |-> IF site_name # "UNK" THEN "FINAL_OUT" ELSE "TRANSFER_OUT",
                   Loc_From |-> loc_from, Loc_To |-> loc_to,
                   Location |-> loc_to, Site |-> site_name]
    IN  IF first THEN <<tx_in>> ELSE <<tx_in, tx_out>>

RowTransactions(events, k) ==
    LET row == events[k]
        first == k = 1 \/ events[k - 1].Case_No # row.Case_No
        loc_from == IF first THEN "SOURCE" ELSE events[k - 1].Location
        loc_to == row.Location
        site_name == normalize_site_name(loc_to)
        tx_in == [Tx_ID |-> <<row.Case_No, row.Date, "IN">>,
                  Case_No |-> row.Case_No, Date |-> row.Date, Qty |-> row.Qty,
                  TxType |-> "IN", TxType_Refined |-> "IN",
                  Loc_From |-> loc_from, Loc_To |-> loc_to,
                  Location |-> loc_to, Site |-> normalize_site_name(loc_to)]
        tx_out == [Tx_ID |-> <<row.Case_No, row.Date, "OUT">>,
                   Case_No |-> row.Case_No, Date |-> row.Date, Qty |-> row.Qty,
                   TxType |-> "OUT",
                   TxType_Refined |-> IF site_name # "UNK" THEN "FINAL_OUT" ELSE "TRANSFER_OUT",
                   Loc_From |-> loc_from, Loc_To |-> loc_to,
                   Location |-> loc_from, Site |-> site_name]
    IN  IF first THEN <<tx_in>> ELSE <<tx_in, tx_out>>

RECURSIVE GroupTransactions(_, _)
GroupTransactions(events, k) ==
    IF k > Len(events) THEN <<>>
    ELSE RowTransactions(events, k) \o GroupTransactions(events, k + 1)

\* DataFrame.drop_duplicates(subset=['Tx_ID']): the first row of every Tx_ID is kept
RECURSIVE drop_duplicates(_)
drop_duplicates(s) ==
    IF s = <<>> THEN <<>>
    ELSE LET init == drop_duplicates(SubSeq(s, 1, Len(s) - 1))
             last == s[Len(s)]
         IN  IF \E i \in 1..Len(init) : init[i].Tx_ID = last.Tx_ID
             THEN init ELSE Append(init, last)

\* a Date that is NaT (pd.NaT), below every timestamp of the model
NaT == -1

\* row['Date'].strftime(...) raises ValueError on NaT: the loop of
\* create_transaction_log has no handler, so the call raises
StrftimeRaises(events) == \E i \in 1..Len(events) : events[i].Date = NaT

create_transaction_log(events) ==
    IF events = <<>> THEN <<>>
    ELSE drop_duplicates(GroupTransactions(sort_values(events), 1))

----------------------------------------------------------------------------
(* Dates and table helpers *)

\* Series.dt.date: the time of day is dropped.  A datetime.date is represented
\* by the tick of its midnight, which is also what pd.to_datetime makes of it.
dt_date(ts) == (ts \div TicksPerDay) * TicksPerDay

\* the day a date counts, for comparing neighbouring periods
DayOf(ts) == ts \div TicksPerDay

\* strftime('%Y-%m') / to_period('M'): the month of a timestamp
YearMonth(ts) == DayOf(ts) \div DaysPerMonth

\* Series.sum()
RECURSIVE Sum(_)
Sum(values) == IF values = <<>> THEN 0 ELSE values[1] + Sum(Tail(values))

\* a set of integers in ascending order
RECURSIVE SortedInts(_)
SortedInts(S) ==
    IF S = {} THEN <<>>
    ELSE LET m == CHOOSE x \in S : \A y \in S : x <= y
         IN  <<m>> \o SortedInts(S \ {m})

\* a set of strings in ascending order
RECURSIVE SortedStrs(_)
SortedStrs(S) ==
    IF S = {} THEN <<>>
    ELSE LET m == CHOOSE x \in S : \A y \in S : x = y \/ StrLess(x, y)
         IN  <<m>> \o SortedStrs(S \ {m})

RECURSIVE Flatten(_)
Flatten(ss) == IF ss = <<>> THEN <<>> ELSE ss[1] \o Flatten(Tail(ss))

----------------------------------------------------------------------------
(* EnhancedAnalysisEngine.calculate_daily_stock *)

\* tx_df['Date'] = pd.to_datetime(tx_df['Date']).dt.date, on the caller's frame
DateColumnToDate(tx_df) == [i \in 1..Len(tx_df) |-> [tx_df[i] EXCEPT !.Date = dt_date(@)]]

\* one cell of daily_pivot: the summed Qty of a (Location, Date, TxType_Refined) group
PivotCell(tx_df, location, date, kind) ==
    LET keep(r) == r.Location = location /\ r.Date = date /\ r.TxType_Refined = kind
    IN  Sum([i \in 1..Len(tx_df) |-> IF keep(tx_df[i]) THEN tx_df[i].Qty ELSE 0])

\* LocationStock with the final-out quantity left out of the closing stock
RECURSIVE LocationStock_NoFinalOut(_, _, _, _)
LocationStock_NoFinalOut(tx_df, location, dates, opening_stock) ==
    IF dates = <<>> THEN <<>>
    ELSE LET date == Head(dates)
             inbound == PivotCell(tx_df, location, date, "IN")
             transfer_out == PivotCell(tx_df, location, date, "TRANSFER_OUT")
             final_out == PivotCell(tx_df, location, date, "FINAL_OUT")
             total_outbound == transfer_out + final_out
             closing_stock == opening_stock + inbound - transfer_out
         IN  << [Location |-> location, Date |-> date,
                 Opening_Stock |-> opening_stock, Inbound |-> inbound,
                 Transfer_Out |-> transfer_out, Final_Out |-> final_out,
                 Total_Outbound |-> total_outbound, Closing_Stock |-> closing_stock] >>
             \o LocationStock_NoFinalOut(tx_df, location, Tail(dates), closing_stock)

\* LocationStock without `opening_stock = closing_stock` at the end of the loop body
RECURSIVE LocationStock_NoCarry(_, _, _, _)
LocationStock_NoCarry(tx_df, location, dates, opening_stock) ==
    IF dates = <<>> THEN <<>>
    ELSE LET date == Head(dates)
             inbound == PivotCell(tx_df, location, date, "IN")
             transfer_out == PivotCell(tx_df, location, date, "TRANSFER_OUT")
             final_out == PivotCell(tx_df, location, date, "FINAL_OUT")
             total_outbound == transfer_out + final_out
             closing_stock == opening_stock + inbound - total_outbound
         IN  << [Location |-> location, Date |-> date,
                 Opening_Stock |-> opening_stock, Inbound |-> inbound,
                 Transfer_Out |-> transfer_out, Final_Out |-> final_out,
                 Total_Outbound |-> total_outbound, Closing_Stock |-> closing_stock] >>
             \o LocationStock_NoCarry(tx_df, location, Tail(dates), opening_stock)

\* the running balance of one location over its dates, in ascending order
RECURSIVE LocationStock(_, _, _, _)
LocationStock(tx_df, location, dates, opening_stock) ==
    IF dates = <<>> THEN <<>>
    ELSE LET date == Head(dates)
             inbound == PivotCell(tx_df, location, date, "IN")
             transfer_out == PivotCell(tx_df, location, date, "TRANSFER_OUT")
             final_out == PivotCell(tx_df, location, date, "FINAL_OUT")
             total_outbound == transfer_out + final_out
             closing_stock == opening_stock + inbound - total_outbound
         IN  << [Location |-> location, Date |-> date,
                 Opening_Stock |-> opening_stock, Inbound |-> inbound,
                 Transfer_Out |-> transfer_out, Final_Out |-> final_out,
                 Total_Outbound |-> total_outbound, Closing_Stock |-> closing_stock] >>
             \o LocationStock(tx_df, location, Tail(dates), closing_stock)

\* the locations the loop of calculate_daily_stock skips
SkippedLocations == {"UNKNOWN", "UNK"}

\* calculate_daily_stock with `opening_stock = 0` set once, before the loop over
\* the locations
calculate_daily_stock_NoReset(tx_df) ==
    LET locations == SortedStrs({tx_df[i].Location : i \in 1..Len(tx_df)})
        dates(location) == SortedInts({tx_df[i].Date : i \in {j \in 1..Len(tx_df) : tx_df[j].Location = location}})
        RECURSIVE From(_, _)
        From(k, opening_stock) ==
            IF k > Len(locations) THEN <<>>
            ELSE IF locations[k] \in {"UNKNOWN", "UNK"} THEN From(k + 1, opening_stock)
            ELSE LET rows == LocationStock(tx_df, locations[k], dates(locations[k]), opening_stock)
                 IN  rows \o From(k + 1, rows[Len(rows)].Closing_Stock)
    IN  From(1, 0)

\* tx_df is the frame after its Date column was replaced
calculate_daily_stock(tx_df) ==
    LET locations == SortedStrs({tx_df[i].Location : i \in 1..Len(tx_df)})
        dates(location) == SortedInts({tx_df[i].Date : i \in {j \in 1..Len(tx_df) : tx_df[j].Location = location}})
    IN  Flatten([k \in 1..Len(locations) |->
            IF locations[k] \in SkippedLocations THEN <<>>
            ELSE LocationStock(tx_df, locations[k], dates(locations[k]), 0)])

----------------------------------------------------------------------------
(* EnhancedAnalysisEngine.analyze_dead_stock *)

\* the default of the parameter threshold_days
threshold_days == 180

\* Timedelta.days: the whole days of now - date
DaysSince(now, date) == (now - date) \div TicksPerDay

\* latest_moves is grouped by Case_No (ascending); case_info takes the Qty of the
\* case's first row and the Location of its last row, in the order of tx_df
analyze_dead_stock(tx_df, now, threshold) ==
    LET rows(c) == {i \in 1..Len(tx_df) : tx_df[i].Case_No = c}
        case_nos == SortedStrs({tx_df[i].Case_No : i \in 1..Len(tx_df)})
        last_move(c) == CHOOSE d \in {tx_df[i].Date : i \in rows(c)} :
                            \A i \in rows(c) : tx_df[i].Date <= d
        first_row(c) == CHOOSE i \in rows(c) : \A j \in rows(c) : i <= j
        last_row(c) == CHOOSE i \in rows(c) : \A j \in rows(c) : j <= i
        dead == SelectSeq(case_nos, LAMBDA c : DaysSince(now, last_move(c)) >= threshold)
    IN  [n \in 1..Len(dead) |->
            [Case_No |-> dead[n],
             Last_Move_Date |-> last_move(dead[n]),
             Days_Since_Last_Move |-> DaysSince(now, last_move(dead[n])),
             Qty |-> tx_df[first_row(dead[n])].Qty,
             Location |-> tx_df[last_row(dead[n])].Location]]

----------------------------------------------------------------------------
(* "HVDC analysis.py": StockEngine *)

\* TxType='TRANSFER' rows are replaced by an OUT row (Loc_To emptied) and an IN
\* row (Loc_From emptied), appended after the other rows.  TxType.str.upper()
\* changes nothing: the TxType values of the records are upper case.
\* (named _expand_transfer in the source)
expand_transfer(tx) ==
    LET transfers == SelectSeq(tx, LAMBDA r : r.TxType = "TRANSFER")
        non_transfers == SelectSeq(tx, LAMBDA r : r.TxType # "TRANSFER")
        out_records == [i \in 1..Len(transfers) |-> [transfers[i] EXCEPT !.TxType = "OUT", !.Loc_To = NA]]
        in_records == [i \in 1..Len(transfers) |-> [transfers[i] EXCEPT !.TxType = "IN", !.Loc_From = NA]]
    IN  IF tx = <<>> \/ transfers = <<>> THEN tx
        ELSE non_transfers \o out_records \o in_records

\* the Loc, Inbound, Outbound and Date columns stock_daily adds to tx_expanded
WithStockColumns(tx_expanded) ==
    [i \in 1..Len(tx_expanded) |->
        LET r == tx_expanded[i]
        IN  [Loc |-> IF r.TxType = "IN" THEN r.Loc_To ELSE r.Loc_From,
             Inbound |-> IF r.TxType = "IN" THEN r.Qty ELSE 0,
             Outbound |-> IF r.TxType = "OUT" THEN r.Qty ELSE 0,
             Date |-> dt_date(r.Date)]]

\* the loop over range(len(loc_data)): Opening is the previous row's Closing
RECURSIVE LocSnapshots(_, _, _, _, _)
LocSnapshots(rows, loc, dates, i, prev_closing) ==
    IF i > Len(dates) THEN <<>>
    ELSE LET inbound == Sum([k \in 1..Len(rows) |->
                            IF rows[k].Loc = loc /\ rows[k].Date = dates[i] THEN rows[k].Inbound ELSE 0])
             outbound == Sum([k \in 1..Len(rows) |->
                            IF rows[k].Loc = loc /\ rows[k].Date = dates[i] THEN rows[k].Outbound ELSE 0])
             opening == IF i = 1 THEN 0 ELSE prev_closing
             closing == IF i = 1 THEN inbound - outbound ELSE prev_closing + inbound - outbound
         IN  << [Loc |-> loc, Date |-> dates[i], Opening |-> opening,
                 Inbound |-> inbound, Outbound |-> outbound, Closing |-> closing] >>
             \o LocSnapshots(rows, loc, dates, i + 1, closing)

\* the locations the loop of stock_daily skips (besides a missing Loc, which
\* groupby has dropped already)
StockDailySkipped == {"UNKNOWN"}

stock_daily(tx) ==
    IF tx = <<>> THEN <<>>
    ELSE LET rows == WithStockColumns(expand_transfer(tx))
             grouped == {k \in 1..Len(rows) : rows[k].Loc # NA}
             locs == SortedStrs({rows[k].Loc : k \in grouped})
             dates(loc) == SortedInts({rows[k].Date : k \in {j \in grouped : rows[j].Loc = loc}})
         IN  Flatten([n \in 1..Len(locs) |->
                 IF locs[n] \in StockDailySkipped THEN <<>>
                 ELSE LocSnapshots(rows, locs[n], dates(locs[n]), 1, 0)])

\* step 1 of create_proper_monthly_warehouse_analysis: the IN and OUT events of a record
RecordTransactions(row) ==
    (IF row.Loc_To # NA
     THEN << [Date |-> row.Date, YearMonth |-> YearMonth(row.Date),
              Location |-> row.Loc_To, TxType |-> "IN", Qty |-> row.Qty] >>
     ELSE <<>>)
    \o
    (IF row.Site # NA /\ row.TxType = "OUT"
     THEN << [Date |-> row.Date, YearMonth |-> YearMonth(row.Date),
              Location |-> row.Loc_From, TxType |-> "OUT", Qty |-> row.Qty] >>
     ELSE <<>>)

\* steps 2 and 3: Qty of monthly_summary for one (Location, YearMonth, TxType)
MonthQty(tx_df, location, month, txtype) ==
    Sum([k \in 1..Len(tx_df) |->
        IF tx_df[k].Location = location /\ tx_df[k].YearMonth = month /\ tx_df[k].TxType = txtype
        THEN tx_df[k].Qty ELSE 0])

\* step 4: the months the rows are built for
AllMonths(tx_df) == SortedInts({tx_df[k].YearMonth : k \in 1..Len(tx_df)})

\* step 5 with every month opening at the stock the location started with
RECURSIVE LocationMonths_NoCarry(_, _, _, _)
LocationMonths_NoCarry(tx_df, location, months, opening_stock) ==
    IF months = <<>> THEN <<>>
    ELSE LET month == Head(months)
             month_inbound == MonthQty(tx_df, location, month, "IN")
             month_outbound == MonthQty(tx_df, location, month, "OUT")
             closing_stock == opening_stock + month_inbound - month_outbound
         IN  << [Location |-> location, YearMonth |-> month,
                 Opening_Stock |-> opening_stock, Inbound_Qty |-> month_inbound,
                 Outbound_Qty |-> month_outbound, Closing_Stock |-> closing_stock,
                 Net_Movement |-> month_inbound - month_outbound] >>
             \o LocationMonths_NoCarry(tx_df, location, Tail(months), opening_stock)

\* step 5: the rows of one location over all_months
RECURSIVE LocationMonths(_, _, _, _)
LocationMonths(tx_df, location, months, opening_stock) ==
    IF months = <<>> THEN <<>>
    ELSE LET month == Head(months)
             month_inbound == MonthQty(tx_df, location, month, "IN")
             month_outbound == MonthQty(tx_df, location, month, "OUT")
             closing_stock == opening_stock + month_inbound - month_outbound
         IN  << [Location |-> location, YearMonth |-> month,
                 Opening_Stock |-> opening_stock, Inbound_Qty |-> month_inbound,
                 Outbound_Qty |-> month_outbound, Closing_Stock |-> closing_stock,
                 Net_Movement |-> month_inbound - month_outbound] >>
             \o LocationMonths(tx_df, location, Tail(months), closing_stock)

\* the locations the loop of create_proper_monthly_warehouse_analysis skips
MonthlySkipped == {"UNKNOWN"}

\* 'monthly_stock_detail' of the result; empty when the function returns {}
create_proper_monthly_warehouse_analysis(records) ==
    LET tx_df == Flatten([k \in 1..Len(records) |-> RecordTransactions(records[k])])
        all_months == AllMonths(tx_df)
        all_locations == SortedStrs({tx_df[k].Location : k \in 1..Len(tx_df)})
    IN  IF records = <<>> \/ tx_df = <<>> THEN <<>>
        ELSE Flatten([n \in 1..Len(all_locations) |->
                IF all_locations[n] \in MonthlySkipped THEN <<>>
                ELSE LocationMonths(tx_df, all_locations[n], all_months, 0)])

\* step 6: pivot_table on the column-less frame of an empty stock_results raises
\* KeyError; that is the case when every location of tx_df was skipped
MonthlyPivotRaises(records) ==
    LET tx_df == Flatten([k \in 1..Len(records) |-> RecordTransactions(records[k])])
    IN  /\ tx_df # <<>>
        /\ \A k \in 1..Len(tx_df) : tx_df[k].Location \in MonthlySkipped

\* the dict create_proper_monthly_warehouse_analysis returns: {} or the tables,
\* of which the model keeps 'monthly_stock_detail'
MonthlyResults(records) ==
    IF create_proper_monthly_warehouse_analysis(records) = <<>> THEN <<>>
    ELSE [monthly_stock_detail |-> create_proper_monthly_warehouse_analysis(records)]

----------------------------------------------------------------------------
(* StockEngine.reconcile *)

Abs(x) == IF x < 0 THEN -x ELSE x

\* tx_last: per Loc the Closing of the row with the latest Date; the index keeps
\* the order of the frame sorted by Date
TxLastLocs(daily) ==
    LET last_rows == {i \in 1..Len(daily) :
                         \A j \in 1..Len(daily) :
                             daily[j].Loc = daily[i].Loc => daily[j].Date <= daily[i].Date}
        RECURSIVE InOrder(_)
        InOrder(S) ==
            IF S = {} THEN <<>>
            ELSE LET m == CHOOSE i \in S : \A j \in S :
                              \/ daily[i].Date < daily[j].Date
                              \/ daily[i].Date = daily[j].Date /\ i <= j
                 IN  <<daily[m].Loc>> \o InOrder(S \ {m})
    IN  InOrder(last_rows)

TxLast(daily, loc) ==
    LET i == CHOOSE k \in 1..Len(daily) :
                 /\ daily[k].Loc = loc
                 /\ \A j \in 1..Len(daily) :
                       daily[j].Loc = loc => daily[j].Date <= daily[k].Date
    IN  daily[i].Closing

\* snap_sum: the Qty of the snapshot rows summed per Loc_To
SnapSum(onhand_df, loc) ==
    Sum([k \in 1..Len(onhand_df) |-> IF onhand_df[k].Loc_To = loc THEN onhand_df[k].Qty ELSE 0])

\* ComparisonRow with the difference taken the other way round
ComparisonRow_LedgerMinusSnapshot(loc, tx_closing, onhand_qty) ==
    LET delta == tx_closing - onhand_qty
    IN  [Loc |-> loc, Tx_Closing |-> tx_closing, OnHand_Qty |-> onhand_qty, Delta |-> delta,
         Status |-> IF Abs(delta) <= 5 THEN "OK" ELSE "ATTENTION",
         Alert_Level |-> IF Abs(delta) >= 10 THEN "HIGH"
                         ELSE IF Abs(delta) >= 5 THEN "MEDIUM" ELSE "LOW"]

\* one row of comparison; Delta is the column 'Δ'
ComparisonRow(loc, tx_closing, onhand_qty) ==
    LET delta == onhand_qty - tx_closing
    IN  [Loc |-> loc, Tx_Closing |-> tx_closing, OnHand_Qty |-> onhand_qty, Delta |-> delta,
         Status |-> IF Abs(delta) <= 5 THEN "OK" ELSE "ATTENTION",
         Alert_Level |-> IF Abs(delta) > 10 THEN "HIGH"
                         ELSE IF Abs(delta) > 5 THEN "MEDIUM" ELSE "LOW"]

\* reconcile(daily_stock, onhand_snap).  onhand_snap is the argument with its Python type: a list has no
\* attribute 'empty', and reading it raises AttributeError.  The rows of the
\* result are the locations of tx_last followed by those only snap_sum has,
\* the missing side filled with 0.
reconcile(daily, onhand_snap) ==
    IF daily = <<>> THEN [raised |-> FALSE, frame |-> <<>>]
    ELSE IF onhand_snap.type = "list" THEN [raised |-> TRUE, frame |-> <<>>]
    ELSE IF onhand_snap.rows = <<>> THEN [raised |-> FALSE, frame |-> <<>>]
    ELSE LET onhand_df == onhand_snap.rows
             tx_locs == TxLastLocs(daily)
             in_tx(loc) == \E n \in 1..Len(tx_locs) : tx_locs[n] = loc
             snap_only == SortedStrs({onhand_df[k].Loc_To : k \in 1..Len(onhand_df)}
                                        \ {tx_locs[n] : n \in 1..Len(tx_locs)})
             in_snap(loc) == \E k \in 1..Len(onhand_df) : onhand_df[k].Loc_To = loc
             index == tx_locs \o snap_only
         IN  [raised |-> FALSE,
              frame |-> [n \in 1..Len(index) |->
                            ComparisonRow(index[n],
                                          IF in_tx(index[n]) THEN TxLast(daily, index[n]) ELSE 0,
                                          IF in_snap(index[n]) THEN SnapSum(onhand_df, index[n]) ELSE 0)]]

----------------------------------------------------------------------------
(* StockEngine.validate_stock_logic *)

\* abs(d) > 0.01
ExceedsTolerance(d) == Abs(d) * 100 > 1

\* Series.unique(): the values in order of first appearance
RECURSIVE Unique(_)
Unique(s) ==
    IF s = <<>> THEN <<>>
    ELSE LET init == Unique(SubSeq(s, 1, Len(s) - 1))
         IN  IF \E i \in 1..Len(init) : init[i] = s[Len(s)] THEN init
             ELSE Append(init, s[Len(s)])

\* stock_df[stock_df['Location'] == location]
LocData(stock_df, location) == SelectSeq(stock_df, LAMBDA r : r.Location = location)

\* loc_data.sort_values('YearMonth'); a location has one row per month
RECURSIVE SortByYearMonth(_)
SortByYearMonth(rows) ==
    IF rows = <<>> THEN <<>>
    ELSE LET m == CHOOSE i \in 1..Len(rows) : \A j \in 1..Len(rows) : rows[i].YearMonth <= rows[j].YearMonth
         IN  <<rows[m]>> \o SortByYearMonth([i \in 1..(Len(rows) - 1) |-> IF i < m THEN rows[i] ELSE rows[i + 1]])

\* StockMismatchErrors with the outbound left out of the expected closing
StockMismatchErrors_NoOutbound(stock_df) ==
    LET expected_closing(row) == row.Opening_Stock + row.Inbound_Qty
        bad == SelectSeq(stock_df, LAMBDA row : ExceedsTolerance(row.Closing_Stock - expected_closing(row)))
    IN  [n \in 1..Len(bad) |->
            [kind |-> "Stock mismatch", Location |-> bad[n].Location, YearMonth |-> bad[n].YearMonth,
             Expected |-> expected_closing(bad[n]), Got |-> bad[n].Closing_Stock]]

\* check 1: one error per row whose closing is not opening + inbound - outbound
StockMismatchErrors(stock_df) ==
    LET expected_closing(row) == row.Opening_Stock + row.Inbound_Qty - row.Outbound_Qty
        bad == SelectSeq(stock_df, LAMBDA row : ExceedsTolerance(row.Closing_Stock - expected_closing(row)))
    IN  [n \in 1..Len(bad) |->
            [kind |-> "Stock mismatch", Location |-> bad[n].Location, YearMonth |-> bad[n].YearMonth,
             Expected |-> expected_closing(bad[n]), Got |-> bad[n].Closing_Stock]]

\* ContinuityErrors comparing without abs()
ContinuityErrors_Signed(stock_df) ==
    LET locations == Unique([i \in 1..Len(stock_df) |-> stock_df[i].Location])
        of(location) ==
            LET loc_data == SortByYearMonth(LocData(stock_df, location))
                breaks == {i \in 2..Len(loc_data) :
                              (loc_data[i - 1].Closing_Stock - loc_data[i].Opening_Stock) * 100 > 1}
                at == SortedInts(breaks)
            IN  [n \in 1..Len(at) |->
                    [kind |-> "Continuity error", Location |-> location,
                     PrevMonth |-> loc_data[at[n] - 1].YearMonth,
                     prev_closing |-> loc_data[at[n] - 1].Closing_Stock,
                     YearMonth |-> loc_data[at[n]].YearMonth,
                     curr_opening |-> loc_data[at[n]].Opening_Stock]]
    IN  Flatten([k \in 1..Len(locations) |-> of(locations[k])])

\* check 2: per location, in month order, each opening against the closing before it
ContinuityErrors(stock_df) ==
    LET locations == Unique([i \in 1..Len(stock_df) |-> stock_df[i].Location])
        of(location) ==
            LET loc_data == SortByYearMonth(LocData(stock_df, location))
                breaks == {i \in 2..Len(loc_data) :
                              ExceedsTolerance(loc_data[i - 1].Closing_Stock - loc_data[i].Opening_Stock)}
                at == SortedInts(breaks)
            IN  [n \in 1..Len(at) |->
                    [kind |-> "Continuity error", Location |-> location,
                     PrevMonth |-> loc_data[at[n] - 1].YearMonth,
                     prev_closing |-> loc_data[at[n] - 1].Closing_Stock,
                     YearMonth |-> loc_data[at[n]].YearMonth,
                     curr_opening |-> loc_data[at[n]].Opening_Stock]]
    IN  Flatten([k \in 1..Len(locations) |-> of(locations[k])])

\* NegativeStockWarnings with the negative-stock check left out
NegativeStockWarnings_None(stock_df) == <<>>

\* check 3: one warning counting the rows with a negative closing
NegativeStockWarnings(stock_df) ==
    LET negative_stock == SelectSeq(stock_df, LAMBDA r : r.Closing_Stock < 0)
    IN  IF negative_stock # <<>>
        THEN << [kind |-> "negative stock", instances |-> Len(negative_stock)] >>
        ELSE <<>>

\* check 4: per location, the closing of its last row (.iloc[-1], in the order
\* of the frame) against total inbound - total outbound
BalanceErrors(stock_df) ==
    LET locations == Unique([i \in 1..Len(stock_df) |-> stock_df[i].Location])
        of(location) ==
            LET loc_data == LocData(stock_df, location)
                total_inbound == Sum([i \in 1..Len(loc_data) |-> loc_data[i].Inbound_Qty])
                total_outbound == Sum([i \in 1..Len(loc_data) |-> loc_data[i].Outbound_Qty])
                final_stock == loc_data[Len(loc_data)].Closing_Stock
                expected_final == total_inbound - total_outbound
            IN  IF ExceedsTolerance(final_stock - expected_final)
                THEN << [kind |-> "Balance error", Location |-> location,
                         total_inbound |-> total_inbound, total_outbound |-> total_outbound,
                         expected_final |-> expected_final, final_stock |-> final_stock] >>
                ELSE <<>>
    IN  Flatten([k \in 1..Len(locations) |-> of(locations[k])])

\* the returned dict; without 'monthly_stock_detail' it has no 'warnings' key
validate_stock_logic(monthly_results) ==
    IF "monthly_stock_detail" \notin DOMAIN monthly_results
    THEN [validation_passed |-> FALSE, errors |-> << [kind |-> "No stock detail data"] >>]
    ELSE LET stock_df == monthly_results.monthly_stock_detail
             errors == StockMismatchErrors(stock_df) \o ContinuityErrors(stock_df)
                          \o BalanceErrors(stock_df)
         IN  [validation_passed |-> Len(errors) = 0,
              errors |-> errors,
              warnings |-> NegativeStockWarnings(stock_df),
              total_records_checked |-> Len(stock_df)]

----------------------------------------------------------------------------
(* "HVDC analysis.py": map_loc.  Strings are the tuples of their characters. *)

\* LOC_MAP in dict order: pattern and canonical name.  A pattern is literal
\* characters and the token ".*"
LOC_MAP ==
    << << <<"M", "4", "4", ".*">>,
          <<"D", "S", "V", " ", "I", "n", "d", "o", "o", "r">> >>,
       << <<"M", "1", ".*">>,
          <<"D", "S", "V", " ", "A", "l", " ", "M", "a", "r", "k", "a", "z">> >>,
       << <<"O", "U", "T", ".*">>,
          <<"D", "S", "V", " ", "O", "u", "t", "d", "o", "o", "r">> >>,
       << <<"M", "O", "S", "B", ".*">>,
          <<"M", "O", "S", "B">> >>,
       << <<"M", "Z", "P", ".*">>,
          <<"D", "S", "V", " ", "M", "Z", "P">> >>,
       << <<".*", "I", "n", "d", "o", "o", "r", ".*">>,
          <<"D", "S", "V", " ", "I", "n", "d", "o", "o", "r">> >>,
       << <<".*", "O", "u", "t", "d", "o", "o", "r", ".*">>,
          <<"D", "S", "V", " ", "O", "u", "t", "d", "o", "o", "r">> >>,
       << <<".*", "A", "l", ".*", "M", "a", "r", "k", "a", "z", ".*">>,
          <<"D", "S", "V", " ", "A", "l", " ", "M", "a", "r", "k", "a", "z">> >>,
       << <<".*", "M", "a", "r", "k", "a", "z", ".*">>,
          <<"D", "S", "V", " ", "A", "l", " ", "M", "a", "r", "k", "a", "z">> >>,
       << <<"H", "a", "u", "l", "e", "r", ".*", "I", "n", "d", "o", "o", "r">>,
          <<"D", "S", "V", " ", "I", "n", "d", "o", "o", "r">> >>,
       << <<"D", "H", "L", ".*", "W", "H">>,
          <<"D", "H", "L", " ", "W", "H">> >>,
       << <<"A", "A", "A", ".*", "S", "t", "o", "r", "a", "g", "e">>,
          <<"A", "A", "A", " ", "S", "t", "o", "r", "a", "g", "e">> >>,
       << <<"S", "h", "i", "f", "t", "i", "n", "g">>,
          <<"S", "h", "i", "f", "t", "i", "n", "g">> >> >>

UpperCase == <<"A", "B", "C", "D", "E", "F", "G", "H", "I", "J", "K", "L", "M", "N", "O", "P", "Q", "R", "S", "T", "U", "V", "W", "X", "Y", "Z">>
LowerCase == <<"a", "b", "c", "d", "e", "f", "g", "h", "i", "j", "k", "l", "m", "n", "o", "p", "q", "r", "s", "t", "u", "v", "w", "x", "y", "z">>

\* re.IGNORECASE: letters are compared without regard to case
CaseFold(c) ==
    IF \E i \in 1..Len(UpperCase) : UpperCase[i] = c
    THEN LowerCase[CHOOSE i \in 1..Len(UpperCase) : UpperCase[i] = c]
    ELSE c

\* str.lower() of a string
Folded(str) == [i \in 1..Len(str) |-> CaseFold(str[i])]

\* re.fullmatch(pattern, str, re.IGNORECASE) is not None (the strings have no
\* newline, which "." would not match)
RECURSIVE FullMatch(_, _)
FullMatch(pattern, str) ==
    IF pattern = <<>> THEN str = <<>>
    ELSE IF pattern[1] = ".*"
         THEN \E k \in 0..Len(str) : FullMatch(Tail(pattern), SubSeq(str, k + 1, Len(str)))
         ELSE /\ str # <<>>
              /\ CaseFold(str[1]) = CaseFold(pattern[1])
              /\ FullMatch(Tail(pattern), Tail(str))

\* str.strip()
RECURSIVE Strip(_)
Strip(str) ==
    IF str = <<>> THEN <<>>
    ELSE IF str[1] = " " THEN Strip(Tail(str))
    ELSE IF str[Len(str)] = " " THEN Strip(SubSeq(str, 1, Len(str) - 1))
    ELSE str

\* None / NaN as the argument of map_loc
MissingCode == <<NA>>

\* map_loc with the loop running to the end of LOC_MAP: the last matching rule wins
map_loc_LastMatch(code) ==
    IF code = MissingCode THEN <<"U", "N", "K", "N", "O", "W", "N">>
    ELSE LET raw_str == Strip(code)
             hits == {i \in 1..Len(LOC_MAP) : FullMatch(LOC_MAP[i][1], raw_str)}
         IN  IF hits = {} THEN raw_str
             ELSE LOC_MAP[CHOOSE i \in hits : \A j \in hits : j <= i][2]

map_loc(code) ==
    IF code = MissingCode THEN <<"U", "N", "K", "N", "O", "W", "N">>
    ELSE LET raw_str == Strip(code)
             hits == {i \in 1..Len(LOC_MAP) : FullMatch(LOC_MAP[i][1], raw_str)}
         IN  IF hits = {} THEN raw_str
             ELSE LOC_MAP[CHOOSE i \in hits : \A j \in hits : i <= j][2]

----------------------------------------------------------------------------
(* "HVDC analysis.py": map_site *)

\* SITE_PATTERNS in dict order: pattern and site
SITE_PATTERNS ==
    << << <<".*", "A", "G", "I", ".*">>, <<"A", "G", "I">> >>,
       << <<".*", "D", "A", "S", ".*">>, <<"D", "A", "S">> >>,
       << <<".*", "M", "I", "R", ".*">>, <<"M", "I", "R">> >>,
       << <<".*", "S", "H", "U", ".*">>, <<"S", "H", "U">> >> >>

\* re.match(pattern, str, re.IGNORECASE) is not None: the pattern matches a prefix of str
Match(pattern, str) == \E k \in 0..Len(str) : FullMatch(pattern, SubSeq(str, 1, k))

\* the site of the first pattern of SITE_PATTERNS that matches candidate, <<>> if none does
CandidateSite(candidate) ==
    IF candidate = MissingCode THEN <<>>
    ELSE LET candidate_str == Strip(candidate)
             hits == {i \in 1..Len(SITE_PATTERNS) : Match(SITE_PATTERNS[i][1], candidate_str)}
         IN  IF hits = {} THEN <<>>
             ELSE SITE_PATTERNS[CHOOSE i \in hits : \A j \in hits : i <= j][2]

\* map_site with the candidates in the order of its parameters: loc_from, loc_to, site_col
map_site_ParameterOrder(loc_from, loc_to, site_col) ==
    LET cands == <<loc_from, loc_to, site_col>>
        hits == {i \in 1..3 : CandidateSite(cands[i]) # <<>>}
    IN  IF hits = {} THEN <<"U", "N", "K">>
        ELSE CandidateSite(cands[CHOOSE i \in hits : \A j \in hits : i <= j])

map_site(loc_from, loc_to, site_col) ==
    LET cands == <<site_col, loc_to, loc_from>>
        hits == {i \in 1..3 : CandidateSite(cands[i]) # <<>>}
    IN  IF hits = {} THEN <<"U", "N", "K">>
        ELSE CandidateSite(cands[CHOOSE i \in hits : \A j \in hits : i <= j])

----------------------------------------------------------------------------
(* The extractors: EnhancedDataLoader._process_warehouse_file of             *)
(* hvdc_ontology_pipeline.py and DataExtractor.extract_case_movements of     *)
(* "HVDC analysis.py".  A sheet has a case column and a quantity column, if  *)
(* the column search found them, and one further column, field; a row gives  *)
(* the cells of the three.  A cell is [kind, val]: kind "num" with the       *)
(* number, "str" for a text that is no number, "nan" for an empty cell (and  *)
(* for the NaN a coerced parse returns), "date" for a date with its tick.    *)

NaN == [kind |-> "nan", val |-> 0]
Num(n) == [kind |-> "num", val |-> n]

\* date_keywords of _extract_warehouse_from_column_name
date_keywords ==
    <<<<"e", "t", "d">>, <<"e", "t", "a">>, <<"a", "t", "d">>, <<"a", "t", "a">>, <<"d", "a", "t", "e">>, <<"t", "i", "m", "e">>, <<"d", "e", "p", "a", "r", "t", "u", "r", "e">>, <<"a", "r", "r", "i", "v", "a", "l">>>>

\* warehouse_patterns of _extract_warehouse_from_column_name, in dict order
warehouse_patterns ==
    << << <<"D", "S", "V", " ", "I", "n", "d", "o", "o", "r">>,
          <<<<"i", "n", "d", "o", "o", "r">>, <<"m", "4", "4">>, <<"h", "a", "u", "l", "e", "r", " ", "i", "n", "d", "o", "o", "r">>>> >>,
       << <<"D", "S", "V", " ", "O", "u", "t", "d", "o", "o", "r">>,
          <<<<"o", "u", "t", "d", "o", "o", "r">>, <<"o", "u", "t", " ">>>> >>,
       << <<"D", "S", "V", " ", "A", "l", " ", "M", "a", "r", "k", "a", "z">>,
          <<<<"m", "a", "r", "k", "a", "z">>, <<"a", "l", " ", "m", "a", "r", "k", "a", "z">>, <<"m", "1">>>> >>,
       << <<"M", "O", "S", "B">>,
          <<<<"m", "o", "s", "b">>, <<"b", "a", "r", "g", "e">>>> >>,
       << <<"D", "S", "V", " ", "M", "Z", "P">>,
          <<<<"m", "z", "p">>>> >>,
       << <<"D", "H", "L", " ", "W", "H">>,
          <<<<"d", "h", "l">>>> >>,
       << <<"A", "A", "A", " ", "S", "t", "o", "r", "a", "g", "e">>,
          <<<<"a", "a", "a">>>> >>,
       << <<"S", "h", "i", "f", "t", "i", "n", "g">>,
          <<<<"s", "h", "i", "f", "t", "i", "n", "g">>>> >> >>

\* site_patterns of _extract_warehouse_from_column_name
site_patterns == <<<<"a", "g", "i">>, <<"d", "a", "s">>, <<"m", "i", "r">>, <<"s", "h", "u">>>>

\* str.upper() of a string of the site patterns
UpperOf(str) ==
    [i \in 1..Len(str) |->
        IF \E k \in 1..Len(LowerCase) : LowerCase[k] = str[i]
        THEN UpperCase[CHOOSE k \in 1..Len(LowerCase) : LowerCase[k] = str[i]]
        ELSE str[i]]

\* EnhancedDataLoader._extract_warehouse_from_column_name
extract_warehouse_from_column_name(col_name) ==
    LET col_lower == Folded(col_name)
        wh == {i \in 1..Len(warehouse_patterns) :
                  \E k \in 1..Len(warehouse_patterns[i][2]) : Contains(warehouse_patterns[i][2][k], col_lower)}
        st == {i \in 1..Len(site_patterns) : Contains(site_patterns[i], col_lower)}
    IN  IF \E k \in 1..Len(date_keywords) : Contains(date_keywords[k], col_lower)
        THEN <<"U", "N", "K", "N", "O", "W", "N">>
        ELSE IF wh # {} THEN warehouse_patterns[CHOOSE i \in wh : \A j \in wh : i <= j][1]
        ELSE IF st # {} THEN UpperOf(site_patterns[CHOOSE i \in st : \A j \in st : i <= j])
        ELSE <<"U", "N", "K", "N", "O", "W", "N">>

\* pd.to_numeric(cell, errors='coerce')
to_numeric(cell) == IF cell.kind = "num" THEN cell ELSE NaN

\* `x or 1`: 0 is falsy, NaN is truthy
Or1(x) == IF x = Num(0) THEN Num(1) ELSE x

\* the column is among date_cols: one of its first values reads as a date
IsDateLike(rows) == \E i \in 1..Len(rows) : rows[i].cell.kind = "date"

\* pd.to_datetime(cell, errors='coerce') is a date
ParsesAsDate(cell) == cell.kind = "date"

\* the events _process_warehouse_file appends for row idx (iterrows counts from 0)
ProcessRow(table, idx) ==
    LET row == table.rows[idx + 1]
        case_no == IF row.case # NA THEN row.case
                   ELSE IF idx = 0 THEN "CASE_0" ELSE IF idx = 1 THEN "CASE_1" ELSE "CASE_2"
        qty == Or1(to_numeric(IF table.qty_col THEN row.qty ELSE Num(1)))
        location == extract_warehouse_from_column_name(table.field)
    IN  IF /\ IsDateLike(table.rows)
           /\ row.cell # NaN
           /\ ParsesAsDate(row.cell)
           /\ location # <<"U", "N", "K", "N", "O", "W", "N">>
        THEN << [Case_No |-> case_no, Date |-> row.cell.val, Qty |-> qty,
                 Location |-> location, Raw_Location |-> table.field] >>
        ELSE <<>>

\* EnhancedDataLoader._process_warehouse_file: the rows of the DataFrame it returns
process_warehouse_file(table) ==
    IF ~table.case_col THEN <<>>
    ELSE Flatten([i \in 1..Len(table.rows) |-> ProcessRow(table, i - 1)])

\* the column tests of extract_case_movements: `wh in col_str`, by case
WarehouseWords ==
    <<<<"D", "S", "V">>, <<"M", "O", "S", "B">>, <<"I", "n", "d", "o", "o", "r">>, <<"O", "u", "t", "d", "o", "o", "r">>, <<"M", "a", "r", "k", "a", "z">>, <<"M", "Z", "P">>, <<"H", "a", "u", "l", "e", "r">>, <<"D", "H", "L">>, <<"A", "A", "A">>, <<"S", "h", "i", "f", "t", "i", "n", "g">>>>
SiteWords == <<<<"D", "A", "S">>, <<"M", "I", "R">>, <<"S", "H", "U">>, <<"A", "G", "I">>>>

IsWarehouseCol(col) == \E k \in 1..Len(WarehouseWords) : Contains(WarehouseWords[k], col)
IsSiteCol(col) == ~IsWarehouseCol(col) /\ \E k \in 1..Len(SiteWords) : Contains(SiteWords[k], col)

\* the records extract_case_movements appends for row idx
ExtractRow(table, idx) ==
    LET row == table.rows[idx + 1]
        case_no == IF row.case # NA THEN row.case
                   ELSE IF idx = 0 THEN "CASE_0_source_file" ELSE IF idx = 1 THEN "CASE_1_source_file"
                   ELSE "CASE_2_source_file"
        qty == IF table.qty_col /\ row.qty # NaN THEN row.qty ELSE Num(1)
        dated == row.cell # NaN /\ ParsesAsDate(row.cell)
    IN  IF IsWarehouseCol(table.field) /\ dated
        THEN << [Case_No |-> case_no, Date |-> row.cell.val, Loc_From |-> MissingCode,
                 Loc_To |-> map_loc(table.field),
                 Site |-> map_site(MissingCode, MissingCode, table.field),
                 Qty |-> qty, TxType |-> "IN"] >>
        ELSE IF IsSiteCol(table.field) /\ dated
        THEN << [Case_No |-> case_no, Date |-> row.cell.val, Loc_From |-> <<"W", "A", "R", "E", "H", "O", "U", "S", "E">>,
                 Loc_To |-> MissingCode,
                 Site |-> map_site(MissingCode, MissingCode, table.field),
                 Qty |-> qty, TxType |-> "OUT"] >>
        ELSE <<>>

\* DataExtractor.extract_case_movements
extract_case_movements(table) ==
    IF ~table.case_col THEN <<>>
    ELSE Flatten([i \in 1..Len(table.rows) |-> ExtractRow(table, i - 1)])

----------------------------------------------------------------------------
(* inventory_validation.py: InventoryValidator.  Quantities are cells: a     *)
(* number or NaN.                                                            *)

\* float arithmetic on cells: NaN propagates
Plus(a, b) == IF a.kind = "num" /\ b.kind = "num" THEN Num(a.val + b.val) ELSE NaN
Minus(a, b) == IF a.kind = "num" /\ b.kind = "num" THEN Num(a.val - b.val) ELSE NaN

\* InventoryValidator.calculate_inventory_loop: inventory_list, from inv
RECURSIVE calculate_inventory_loop(_, _)
calculate_inventory_loop(rows, inv) ==
    IF rows = <<>> THEN <<>>
    ELSE LET next == Minus(Plus(inv, rows[1].Incoming), rows[1].Outgoing)
         IN  <<next>> \o calculate_inventory_loop(Tail(rows), next)

\* Series.cumsum(): skipna, a NaN stays NaN at its position and is left out of
\* the running total
RECURSIVE cumsum(_, _)
cumsum(values, total) ==
    IF values = <<>> THEN <<>>
    ELSE IF values[1].kind = "num"
         THEN <<Plus(total, values[1])>> \o cumsum(Tail(values), Plus(total, values[1]))
         ELSE <<NaN>> \o cumsum(Tail(values), total)

\* InventoryValidator.calculate_inventory_vectorized
calculate_inventory_vectorized(rows, initial) ==
    LET net_movement == [k \in 1..Len(rows) |-> Minus(rows[k].Incoming, rows[k].Outgoing)]
        running == cumsum(net_movement, Num(0))
    IN  [k \in 1..Len(rows) |-> Plus(initial, running[k])]

\* np.allclose(a, b, rtol=1e-9) on integer values: equal numbers at every
\* position; a NaN is close to nothing
allclose(a, b) ==
    /\ Len(a) = Len(b)
    /\ \A k \in 1..Len(a) : a[k].kind = "num" /\ b[k].kind = "num" /\ a[k].val = b[k].val

\* InventoryValidator.validate_inventory_calculation, for a frame without an
\* Inventory column
validate_inventory_calculation(rows, initial) ==
    LET inventory_loop == calculate_inventory_loop(rows, initial)
        inventory_vectorized == calculate_inventory_vectorized(rows, initial)
    IN  [total_records |-> Len(rows),
         initial_stock |-> initial,
         inventory_loop |-> inventory_loop,
         inventory_vectorized |-> inventory_vectorized,
         final_inventory_loop |-> IF inventory_loop # <<>> THEN inventory_loop[Len(inventory_loop)]
                                  ELSE initial,
         loop_vs_vectorized_match |-> allclose(inventory_loop, inventory_vectorized)]

----------------------------------------------------------------------------
(* EnhancedAnalysisEngine.validate_stock_integrity and create_monthly_summary *)

\* the rows validate_stock_integrity reports: closing differs from
\* opening + inbound - total outbound by more than 0.01
IntegrityErrors(daily_stock_df) ==
    SelectSeq([i \in 1..Len(daily_stock_df) |->
                  [Location |-> daily_stock_df[i].Location,
                   Date |-> daily_stock_df[i].Date,
                   Expected |-> daily_stock_df[i].Opening_Stock + daily_stock_df[i].Inbound
                                    - daily_stock_df[i].Total_Outbound,
                   Actual |-> daily_stock_df[i].Closing_Stock]],
              LAMBDA r : ExceedsTolerance(r.Actual - r.Expected))

validate_stock_integrity(daily_stock_df) ==
    IF daily_stock_df = <<>> THEN [status |-> "SKIP"]
    ELSE IF IntegrityErrors(daily_stock_df) = <<>>
         THEN [status |-> "PASS", errors |-> 0, details |-> <<>>]
         ELSE [status |-> "FAIL", errors |-> Len(IntegrityErrors(daily_stock_df)),
               details |-> IntegrityErrors(daily_stock_df)]

\* frame['YearMonth'] = pd.to_datetime(frame['Date']).dt.to_period('M').astype(str),
\* on the caller's frame
WithYearMonth(frame) ==
    [i \in 1..Len(frame) |->
        [f \in DOMAIN frame[i] \cup {"YearMonth"} |->
            IF f = "YearMonth" THEN YearMonth(frame[i].Date) ELSE frame[i][f]]]

\* one cell of monthly_pivot
MonthlyCell(tx_df, location, month, kind) ==
    Sum([i \in 1..Len(tx_df) |->
        IF tx_df[i].Location = location /\ tx_df[i].YearMonth = month /\ tx_df[i].TxType_Refined = kind
        THEN tx_df[i].Qty ELSE 0])

\* monthly_closing merged into monthly_pivot: the last Closing_Stock of the
\* location in the month, 0 when the ledger has no row for them
MonthlyClosing(daily, location, month) ==
    LET rows == SelectSeq(daily, LAMBDA r : r.Location = location /\ r.YearMonth = month)
    IN  IF rows = <<>> THEN 0 ELSE rows[Len(rows)].Closing_Stock

\* the rows of the DataFrame create_monthly_summary returns (the column 'IN' is
\* the field In)
create_monthly_summary(tx_df, daily) ==
    IF tx_df = <<>> THEN <<>>
    ELSE LET tx == WithYearMonth(tx_df)
             ledger == WithYearMonth(daily)
             locations == SortedStrs({tx[i].Location : i \in 1..Len(tx)})
             months(location) ==
                 SortedInts({tx[i].YearMonth : i \in {j \in 1..Len(tx) : tx[j].Location = location}})
         IN  Flatten([k \in 1..Len(locations) |->
                 [m \in 1..Len(months(locations[k])) |->
                     [Location |-> locations[k],
                      YearMonth |-> months(locations[k])[m],
                      In |-> MonthlyCell(tx, locations[k], months(locations[k])[m], "IN"),
                      TRANSFER_OUT |-> MonthlyCell(tx, locations[k], months(locations[k])[m], "TRANSFER_OUT"),
                      FINAL_OUT |-> MonthlyCell(tx, locations[k], months(locations[k])[m], "FINAL_OUT"),
                      Closing_Stock |-> MonthlyClosing(ledger, locations[k], months(locations[k])[m])]]])

----------------------------------------------------------------------------
(* The runs *)

\* the timestamps, days and quantities the input records are drawn from
Timestamps == 0..4
Days == 0..4
Quantities == {1, 2}

\* the locations _extract_warehouse_from_column_name gives the events
Locations == {"DSV Indoor", "DSV Outdoor", "MIR"}

Events == [Case_No : Cases, Date : Timestamps, Qty : Quantities, Location : Locations]

\* the movement records of "HVDC analysis.py", dated at midnight:
\*   a warehouse column's record (IN), a site column's record (OUT from
\*   'WAREHOUSE'), an invoice record (COST, no quantity), and a TRANSFER
MovementDates == {d * TicksPerDay : d \in Days}

Movements ==
    [Date : MovementDates, TxType : {"IN"}, Loc_From : {NA},
     Loc_To : {"DSV Indoor", "DSV Outdoor"}, Site : {"UNK"}, Qty : Quantities]
    \cup
    [Date : MovementDates, TxType : {"OUT"}, Loc_From : {"WAREHOUSE"},
     Loc_To : {NA}, Site : {"MIR"}, Qty : Quantities]
    \cup
    [Date : MovementDates, TxType : {"COST"}, Loc_From : {NA},
     Loc_To : {"UNKNOWN", "UNK"}, Site : {"UNK"}, Qty : {0}]
    \cup
    {r \in [Date : MovementDates, TxType : {"TRANSFER"}, Loc_From : {"DSV Indoor", "DSV Outdoor"},
            Loc_To : {"DSV Indoor", "DSV Outdoor"}, Site : {"UNK"}, Qty : Quantities] :
        r.Loc_From # r.Loc_To}

SeqsUpTo(S, n) == UNION {[1..k -> S] : k \in 0..n}

\* no snapshot file was found: onhand_movements is the empty list
NoSnapshot == [type |-> "list", rows |-> <<>>]

InitPipeline ==
    /\ pc = "events"
    /\ raw_events \in SeqsUpTo(Events, MaxEvents)
    /\ df = <<>>
    /\ warehouse_monthly = <<>>
    /\ onhand_movements = NoSnapshot

\* events whose Date is NaT, as a caller of create_transaction_log may hand them in
UndatedEvents == [Case_No : Cases, Date : {NaT}, Qty : Quantities, Location : Locations]

\* a call of create_transaction_log with an undated event among the events
InitUndated ==
    /\ pc = "events"
    /\ raw_events \in {evs \in SeqsUpTo(Events \cup UndatedEvents, MaxEvents) :
                           \E i \in 1..Len(evs) : evs[i].Date = NaT}
    /\ df = <<>>
    /\ warehouse_monthly = <<>>
    /\ onhand_movements = NoSnapshot

\* main's run: onhand_movements is the list the snapshot loader filled
InitAnalysis ==
    /\ pc = "movements"
    /\ raw_events = <<>>
    /\ df \in SeqsUpTo(Movements, MaxEvents)
    /\ warehouse_monthly = <<>>
    /\ onhand_movements \in {NoSnapshot, [type |-> "list", rows |-> << [Loc_To |-> "DSV Indoor", Qty |-> 4] >>]}

\* the movement records and the snapshot rows of a reconciliation
SnapshotMovements ==
    [Date : {0, TicksPerDay}, TxType : {"IN"}, Loc_From : {NA},
     Loc_To : {"DSV Indoor", "DSV Outdoor"}, Site : {"UNK"}, Qty : {5, 812}]

SnapshotRows == [Loc_To : {"DSV Indoor", "MIR"}, Qty : {4, 11, 15, 820}]

\* a run whose snapshot is a DataFrame
InitReconcile ==
    /\ pc = "movements"
    /\ raw_events = <<>>
    /\ df \in SeqsUpTo(SnapshotMovements, MaxEvents)
    /\ warehouse_monthly = <<>>
    /\ onhand_movements \in {[type |-> "DataFrame", rows |-> r] : r \in SeqsUpTo(SnapshotRows, MaxEvents)}

\* the rows of a monthly ledger given to the validator
LedgerRows ==
    [Location : {"DSV Indoor", "DSV Outdoor"}, YearMonth : {0, 1},
     Opening_Stock : {0, 100}, Inbound_Qty : {0, 20, 100}, Outbound_Qty : {0, 50},
     Closing_Stock : {-50, 60, 70, 100}]

\* ledgers in the order the builder emits: by location, then by month, one row
\* per location and month
GivenLedgers ==
    {l \in SeqsUpTo(LedgerRows, MaxEvents) :
        /\ l # <<>>
        /\ \A i \in 1..(Len(l) - 1) :
              \/ StrLess(l[i].Location, l[i + 1].Location)
              \/ l[i].Location = l[i + 1].Location /\ l[i].YearMonth < l[i + 1].YearMonth}

InitValidation ==
    /\ pc = "results"
    /\ raw_events = <<>>
    /\ df = <<>>
    /\ warehouse_monthly \in {[monthly_stock_detail |-> l] : l \in GivenLedgers}
    /\ onhand_movements = NoSnapshot

\* the column names and cell values map_loc is called with
RawCodes ==
    {MissingCode,
     <<"M", "4", "4", "-", "B", "A", "Y", "0", "7">>,
     <<"m", "4", "4", "-", "b", "a", "y", "0", "7">>,
     <<"M", "1">>,
     <<"O", "U", "T", " ", "I", "n", "d", "o", "o", "r">>,
     <<"H", "a", "u", "l", "e", "r", " ", "I", "n", "d", "o", "o", "r">>,
     <<"A", "l", " ", "M", "a", "r", "k", "a", "z">>,
     <<"S", "h", "i", "f", "t", "i", "n", "g">>,
     <<"S", "h", "i", "f", "t", "i", "n", "g", "2">>,
     <<"U", "N", "L", "I", "S", "T", "E", "D", "-", "Z", "O", "N", "E">>,
     <<" ", "M", "4", "4", " ">>,
     <<" ", "X", "Y", "Z", " ">>,
     <<"d", "h", "l", " ", "w", "h">>,
     <<>>}

InitMapping ==
    /\ pc = "code"
    /\ raw_events = <<>>
    /\ df = <<>>
    /\ warehouse_monthly = <<>>
    /\ onhand_movements = NoSnapshot

\* the site, destination and origin values map_site is called with
SiteCodes ==
    {MissingCode,
     <<"A", "G", "I">>,
     <<"d", "a", "s">>,
     <<"S", "i", "t", "e", " ", "M", "I", "R", " ", "2">>,
     <<"D", "S", "V", " ", "I", "n", "d", "o", "o", "r">>}

InitSite ==
    /\ pc = "candidates"
    /\ raw_events = <<>>
    /\ df = <<>>
    /\ warehouse_monthly = <<>>
    /\ onhand_movements = NoSnapshot

\* the names of the further column of a sheet
FieldNames ==
    {<<"D", "S", "V", " ", "I", "n", "d", "o", "o", "r">>,
     <<"E", "T", "A", " ", "D", "S", "V", " ", "I", "n", "d", "o", "o", "r">>,
     <<"D", "A", "S">>,
     <<"D", "A", "S", " ", "A", "r", "r", "i", "v", "a", "l">>,
     <<"R", "e", "m", "a", "r", "k", "s">>,
     <<"E", "T", "A">>}

\* the rows of a sheet: the case cell, the quantity cell, the cell of the further column
SheetRows ==
    [case : {"C1", NA},
     qty  : {NaN, Num(0), Num(3), [kind |-> "str", val |-> 0]},
     cell : {NaN, [kind |-> "date", val |-> 0], [kind |-> "str", val |-> 0]}]

Sheets ==
    [case_col : BOOLEAN, qty_col : BOOLEAN, field : FieldNames,
     rows : SeqsUpTo(SheetRows, MaxEvents) \ {<<>>}]

InitSheet ==
    /\ pc = "sheet"
    /\ raw_events = <<>>
    /\ df = <<>>
    /\ warehouse_monthly = <<>>
    /\ onhand_movements = NoSnapshot

\* the rows of test_inventory_validation
ExampleRows ==
    << [Incoming |-> Num(100), Outgoing |-> Num(20)],
       [Incoming |-> Num(50),  Outgoing |-> Num(30)],
       [Incoming |-> Num(0),   Outgoing |-> Num(40)],
       [Incoming |-> Num(75),  Outgoing |-> Num(15)],
       [Incoming |-> Num(25),  Outgoing |-> Num(60)] >>

InventoryRows == [Incoming : {Num(0), Num(3), NaN}, Outgoing : {Num(0), Num(1), NaN}]

InitInventory ==
    /\ pc = "test_data"
    /\ raw_events = <<>>
    /\ df = <<>>
    /\ warehouse_monthly = <<>>
    /\ onhand_movements = NoSnapshot
    /\ raw_code = <<>>
    /\ candidates = <<>>
    /\ sheet = <<>>

Init ==
    /\ \/ (InitPipeline \/ InitUndated \/ InitAnalysis \/ InitReconcile \/ InitValidation)
          /\ raw_code = <<>> /\ candidates = <<>> /\ sheet = <<>>
       \/ InitMapping /\ raw_code \in RawCodes /\ candidates = <<>> /\ sheet = <<>>
       \/ InitSite /\ raw_code = <<>> /\ candidates \in SiteCodes \X SiteCodes \X SiteCodes
          /\ sheet = <<>>
       \/ InitSheet /\ raw_code = <<>> /\ candidates = <<>> /\ sheet \in Sheets
       \/ InitInventory
    /\ IF pc = "test_data"
       THEN test_data \in [rows : SeqsUpTo(InventoryRows, MaxEvents) \cup {ExampleRows},
                           initial_stock : {Num(0), Num(5)}]
       ELSE test_data = <<>>
    /\ validation_results = <<>>
    /\ integrity_results = <<>>
    /\ monthly_summary = <<>>
    /\ site = <<>>
    /\ movements = <<>>
    /\ transaction_log = <<>>
    /\ daily_stock = <<>>
    /\ engine_daily = <<>>
    /\ monthly_stock_detail = <<>>
    /\ current_date = 0
    /\ dead_stock = <<>>
    /\ validation_result = <<>>
    /\ reconcile_result = [raised |-> FALSE, frame |-> <<>>]
    /\ canonical = <<>>

\* hvdc_ontology_pipeline.main: transaction_log = tx_engine.create_transaction_log(raw_events)
\* main's `except Exception` ends the run when the call raises
CreateTransactionLog ==
    /\ pc = "events"
    /\ IF StrftimeRaises(raw_events)
       THEN transaction_log' = <<>> /\ pc' = "raised"
       ELSE transaction_log' = create_transaction_log(raw_events) /\ pc' = "classified"
    /\ UNCHANGED <<raw_events, daily_stock, df, engine_daily, monthly_stock_detail, current_date, dead_stock, warehouse_monthly, validation_result,
                   snapshot_vars, mapping_vars, site_vars, extractor_vars, inventory_vars, summary_vars>>

\* hvdc_ontology_pipeline.main: daily_stock = analyzer.calculate_daily_stock(transaction_log);
\* the Date column of the caller's frame is replaced too
CalculateDailyStock ==
    /\ pc = "classified"
    /\ transaction_log' = DateColumnToDate(transaction_log)
    /\ daily_stock' = calculate_daily_stock(DateColumnToDate(transaction_log))
    /\ pc' = "ledger"
    /\ UNCHANGED <<raw_events, df, engine_daily, monthly_stock_detail, current_date, dead_stock, warehouse_monthly, validation_result,
                   snapshot_vars, mapping_vars, site_vars, extractor_vars, inventory_vars, summary_vars>>

\* "HVDC analysis.py" main: daily_stock = StockEngine.stock_daily(df)
StockDaily ==
    /\ pc = "movements"
    /\ engine_daily' = stock_daily(df)
    /\ pc' = "daily"
    /\ UNCHANGED <<raw_events, transaction_log, daily_stock, df, monthly_stock_detail, current_date, dead_stock, warehouse_monthly, validation_result,
                   snapshot_vars, mapping_vars, site_vars, extractor_vars, inventory_vars, summary_vars>>

\* "HVDC analysis.py" main:
\*   reconcile_result = StockEngine.reconcile(daily_stock, onhand_movements) if onhand_movements else pd.DataFrame()
\* where onhand_movements is a list; a caller that holds the snapshot as a
\* DataFrame, as the signature of reconcile asks, calls reconcile with it.
\* main ends when reconcile raises.
Reconcile ==
    /\ pc = "daily"
    /\ reconcile_result' =
          IF onhand_movements.type = "list" /\ onhand_movements.rows = <<>>
          THEN [raised |-> FALSE, frame |-> <<>>]
          ELSE reconcile(engine_daily, onhand_movements)
    /\ pc' = IF reconcile_result'.raised THEN "raised" ELSE "reconciled"
    /\ UNCHANGED <<raw_events, transaction_log, daily_stock, df, engine_daily, monthly_stock_detail,
                   current_date, dead_stock, warehouse_monthly, validation_result,
                   onhand_movements, mapping_vars, site_vars, extractor_vars, inventory_vars, summary_vars>>

\* "HVDC analysis.py" main: warehouse_monthly = create_warehouse_monthly_analysis(df)
MonthlyAnalysis ==
    /\ pc = "reconciled"
    /\ monthly_stock_detail' = create_proper_monthly_warehouse_analysis(df)
    /\ warehouse_monthly' = MonthlyResults(df)
    /\ pc' = IF MonthlyPivotRaises(df) THEN "raised" ELSE "monthly"
    /\ UNCHANGED <<raw_events, transaction_log, daily_stock, df, engine_daily, current_date, dead_stock,
                   validation_result,
                   snapshot_vars, mapping_vars, site_vars, extractor_vars, inventory_vars, summary_vars>>

\* "HVDC analysis.py" main: validation_result = StockEngine.validate_stock_logic(warehouse_monthly),
\* and the reads of validation_result['warnings'] that follow; also the call on
\* a given result
ValidateStockLogic ==
    /\ pc \in {"monthly", "results"}
    /\ validation_result' = validate_stock_logic(warehouse_monthly)
    /\ pc' = IF "warnings" \in DOMAIN validate_stock_logic(warehouse_monthly) THEN "validated" ELSE "raised"
    /\ UNCHANGED <<raw_events, transaction_log, daily_stock, df, engine_daily, monthly_stock_detail,
                   current_date, dead_stock, warehouse_monthly,
                   snapshot_vars, mapping_vars, site_vars, extractor_vars, inventory_vars, summary_vars>>

\* the days on which the analysis may run (datetime.now()), at midnight
CurrentDates == {d * TicksPerDay : d \in {100, 180, 202}}

\* hvdc_ontology_pipeline.main: dead_stock = analyzer.analyze_dead_stock(transaction_log)
AnalyzeDeadStock ==
    /\ pc = "integrity"
    /\ \E now \in CurrentDates :
          /\ current_date' = now
          /\ dead_stock' = analyze_dead_stock(transaction_log, now, threshold_days)
    /\ pc' = "dead_stock"
    /\ UNCHANGED <<raw_events, transaction_log, daily_stock, df, engine_daily, monthly_stock_detail,
                   warehouse_monthly, validation_result,
                   snapshot_vars, mapping_vars, site_vars, extractor_vars, inventory_vars, summary_vars>>

\* DataExtractor: 'Loc_To': map_loc(wh_col), location = map_loc(row[loc_col])
MapLoc ==
    /\ pc = "code"
    /\ canonical' = map_loc(raw_code)
    /\ pc' = "mapped"
    /\ UNCHANGED <<raw_events, transaction_log, daily_stock, df, engine_daily, monthly_stock_detail,
                   current_date, dead_stock, warehouse_monthly, validation_result,
                   snapshot_vars, raw_code, site_vars, extractor_vars, inventory_vars, summary_vars>>

\* a call map_site(loc_from, loc_to, site_col)
MapSite ==
    /\ pc = "candidates"
    /\ site' = map_site(candidates[3], candidates[2], candidates[1])
    /\ pc' = "site"
    /\ UNCHANGED <<raw_events, transaction_log, daily_stock, df, engine_daily, monthly_stock_detail,
                   current_date, dead_stock, warehouse_monthly, validation_result,
                   snapshot_vars, mapping_vars, candidates, extractor_vars, inventory_vars, summary_vars>>

\* EnhancedDataLoader.load_and_process_files: movements = self._process_warehouse_file(filepath)
ProcessWarehouseFile ==
    /\ pc = "sheet"
    /\ movements' = process_warehouse_file(sheet)
    /\ pc' = "processed"
    /\ UNCHANGED <<raw_events, transaction_log, daily_stock, df, engine_daily, monthly_stock_detail,
                   current_date, dead_stock, warehouse_monthly, validation_result,
                   snapshot_vars, mapping_vars, site_vars, sheet, inventory_vars, summary_vars>>

\* "HVDC analysis.py": movements = DataExtractor.extract_case_movements(df, file_type, filepath)
ExtractCaseMovements ==
    /\ pc = "sheet"
    /\ movements' = extract_case_movements(sheet)
    /\ pc' = "extracted"
    /\ UNCHANGED <<raw_events, transaction_log, daily_stock, df, engine_daily, monthly_stock_detail,
                   current_date, dead_stock, warehouse_monthly, validation_result,
                   snapshot_vars, mapping_vars, site_vars, sheet, inventory_vars, summary_vars>>

\* test_inventory_validation: results, validated_df = validator.validate_inventory_calculation(test_data)
ValidateInventoryCalculation ==
    /\ pc = "test_data"
    /\ validation_results' = validate_inventory_calculation(test_data.rows, test_data.initial_stock)
    /\ pc' = "inventory_validated"
    /\ UNCHANGED <<raw_events, transaction_log, daily_stock, df, engine_daily, monthly_stock_detail,
                   current_date, dead_stock, warehouse_monthly, validation_result,
                   snapshot_vars, mapping_vars, site_vars, extractor_vars, test_data, summary_vars>>

\* hvdc_ontology_pipeline.main: validation_results = analyzer.validate_stock_integrity(daily_stock)
ValidateStockIntegrity ==
    /\ pc = "ledger"
    /\ integrity_results' = validate_stock_integrity(daily_stock)
    /\ pc' = "integrity"
    /\ UNCHANGED <<raw_events, transaction_log, daily_stock, df, engine_daily, monthly_stock_detail,
                   current_date, dead_stock, warehouse_monthly, validation_result,
                   snapshot_vars, mapping_vars, site_vars, extractor_vars, inventory_vars,
                   monthly_summary>>

\* hvdc_ontology_pipeline.main: monthly_summary = analyzer.create_monthly_summary(transaction_log, daily_stock);
\* both frames of the caller get the column YearMonth
CreateMonthlySummary ==
    /\ pc = "dead_stock"
    /\ monthly_summary' = create_monthly_summary(transaction_log, daily_stock)
    /\ transaction_log' = WithYearMonth(transaction_log)
    /\ daily_stock' = IF transaction_log = <<>> THEN daily_stock ELSE WithYearMonth(daily_stock)
    /\ pc' = "summary"
    /\ UNCHANGED <<raw_events, df, engine_daily, monthly_stock_detail,
                   current_date, dead_stock, warehouse_monthly, validation_result,
                   snapshot_vars, mapping_vars, site_vars, extractor_vars, inventory_vars,
                   integrity_results>>

Next ==
    \/ CreateTransactionLog \/ CalculateDailyStock \/ ValidateStockIntegrity
    \/ AnalyzeDeadStock \/ CreateMonthlySummary
    \/ StockDaily \/ Reconcile \/ MonthlyAnalysis \/ ValidateStockLogic
    \/ MapLoc \/ MapSite
    \/ ProcessWarehouseFile \/ ExtractCaseMovements \/ ValidateInventoryCalculation

Spec == Init /\ [][Next]_vars

----------------------------------------------------------------------------
(* Properties *)

Rows(t) == 1..Len(t)

\* the delivery sites, as opposed to the warehouses
DeliverySites == {"AGI", "DAS", "MIR", "SHU"}

\* C1: every row of every ledger builder balances: closing = opening + inbound
\* - outbound, where the outbound of the daily ledger is transfer-out + final-out.
C1_Balance ==
    /\ \A i \in Rows(daily_stock) :
          /\ daily_stock[i].Total_Outbound = daily_stock[i].Transfer_Out + daily_stock[i].Final_Out
          /\ daily_stock[i].Closing_Stock =
                daily_stock[i].Opening_Stock + daily_stock[i].Inbound - daily_stock[i].Total_Outbound
    /\ \A i \in Rows(engine_daily) :
          engine_daily[i].Closing = engine_daily[i].Opening + engine_daily[i].Inbound - engine_daily[i].Outbound
    /\ \A i \in Rows(monthly_stock_detail) :
          monthly_stock_detail[i].Closing_Stock =
             monthly_stock_detail[i].Opening_Stock + monthly_stock_detail[i].Inbound_Qty
                - monthly_stock_detail[i].Outbound_Qty

\* a daily ledger row that opens with stock and ships some of it
C1_Witness ==
    /\ pc = "ledger"
    /\ \E i \in Rows(daily_stock) :
          /\ daily_stock[i].Opening_Stock > 0
          /\ daily_stock[i].Final_Out > 0
          /\ daily_stock[i].Closing_Stock < daily_stock[i].Opening_Stock

\* C2: in every ledger, per location in ascending period order, each row after
\* the first opens with the closing of the row immediately before it (and a
\* location has one row per period).
C2_Continuity ==
    /\ \A i, j \in Rows(daily_stock) :
          /\ daily_stock[i].Location = daily_stock[j].Location
          /\ daily_stock[i].Date <= daily_stock[j].Date
          /\ i # j
          /\ ~ \E k \in Rows(daily_stock) :
                /\ daily_stock[k].Location = daily_stock[i].Location
                /\ daily_stock[i].Date < daily_stock[k].Date
                /\ daily_stock[k].Date < daily_stock[j].Date
          => /\ daily_stock[i].Date < daily_stock[j].Date
             /\ daily_stock[j].Opening_Stock = daily_stock[i].Closing_Stock
    /\ \A i, j \in Rows(engine_daily) :
          /\ engine_daily[i].Loc = engine_daily[j].Loc
          /\ engine_daily[i].Date <= engine_daily[j].Date
          /\ i # j
          /\ ~ \E k \in Rows(engine_daily) :
                /\ engine_daily[k].Loc = engine_daily[i].Loc
                /\ engine_daily[i].Date < engine_daily[k].Date
                /\ engine_daily[k].Date < engine_daily[j].Date
          => /\ engine_daily[i].Date < engine_daily[j].Date
             /\ engine_daily[j].Opening = engine_daily[i].Closing
    /\ \A i, j \in Rows(monthly_stock_detail) :
          /\ monthly_stock_detail[i].Location = monthly_stock_detail[j].Location
          /\ monthly_stock_detail[i].YearMonth <= monthly_stock_detail[j].YearMonth
          /\ i # j
          /\ ~ \E k \in Rows(monthly_stock_detail) :
                /\ monthly_stock_detail[k].Location = monthly_stock_detail[i].Location
                /\ monthly_stock_detail[i].YearMonth < monthly_stock_detail[k].YearMonth
                /\ monthly_stock_detail[k].YearMonth < monthly_stock_detail[j].YearMonth
          => /\ monthly_stock_detail[i].YearMonth < monthly_stock_detail[j].YearMonth
             /\ monthly_stock_detail[j].Opening_Stock = monthly_stock_detail[i].Closing_Stock

\* a location of the daily ledger with two periods, the second opening with stock
C2_Witness ==
    /\ pc = "ledger"
    /\ \E i, j \in Rows(daily_stock) :
          /\ daily_stock[i].Location = daily_stock[j].Location
          /\ daily_stock[i].Date < daily_stock[j].Date
          /\ daily_stock[i].Closing_Stock > 0
          /\ daily_stock[j].Opening_Stock = daily_stock[i].Closing_Stock
          /\ daily_stock[j].Inbound > 0

\* C3: for every location of a ledger, the first period opens at 0 and the last
\* period closes at the sum of the location's inbound minus the sum of its outbound.
C3_AggregateBalance ==
    /\ \A i \in Rows(daily_stock) :
          LET loc == {k \in Rows(daily_stock) : daily_stock[k].Location = daily_stock[i].Location}
          IN  /\ (\A k \in loc : daily_stock[i].Date <= daily_stock[k].Date)
                    => daily_stock[i].Opening_Stock = 0
              /\ (\A k \in loc : daily_stock[k].Date <= daily_stock[i].Date)
                    => daily_stock[i].Closing_Stock =
                          Sum([k \in Rows(daily_stock) |-> IF k \in loc THEN daily_stock[k].Inbound ELSE 0])
                          - Sum([k \in Rows(daily_stock) |-> IF k \in loc THEN daily_stock[k].Total_Outbound ELSE 0])
    /\ \A i \in Rows(engine_daily) :
          LET loc == {k \in Rows(engine_daily) : engine_daily[k].Loc = engine_daily[i].Loc}
          IN  /\ (\A k \in loc : engine_daily[i].Date <= engine_daily[k].Date)
                    => engine_daily[i].Opening = 0
              /\ (\A k \in loc : engine_daily[k].Date <= engine_daily[i].Date)
                    => engine_daily[i].Closing =
                          Sum([k \in Rows(engine_daily) |-> IF k \in loc THEN engine_daily[k].Inbound ELSE 0])
                          - Sum([k \in Rows(engine_daily) |-> IF k \in loc THEN engine_daily[k].Outbound ELSE 0])
    /\ \A i \in Rows(monthly_stock_detail) :
          LET loc == {k \in Rows(monthly_stock_detail) :
                         monthly_stock_detail[k].Location = monthly_stock_detail[i].Location}
          IN  /\ (\A k \in loc : monthly_stock_detail[i].YearMonth <= monthly_stock_detail[k].YearMonth)
                    => monthly_stock_detail[i].Opening_Stock = 0
              /\ (\A k \in loc : monthly_stock_detail[k].YearMonth <= monthly_stock_detail[i].YearMonth)
                    => monthly_stock_detail[i].Closing_Stock =
                          Sum([k \in Rows(monthly_stock_detail) |->
                                  IF k \in loc THEN monthly_stock_detail[k].Inbound_Qty ELSE 0])
                          - Sum([k \in Rows(monthly_stock_detail) |->
                                  IF k \in loc THEN monthly_stock_detail[k].Outbound_Qty ELSE 0])

\* a second location of the daily ledger, after a first one that closed with stock
C3_Witness ==
    /\ pc = "ledger"
    /\ \E i, j \in Rows(daily_stock) :
          /\ i < j
          /\ daily_stock[i].Location # daily_stock[j].Location
          /\ daily_stock[i].Closing_Stock > 0
          /\ daily_stock[j].Opening_Stock = 0
          /\ daily_stock[j].Closing_Stock > 0

\* C4: an EXIT of the transaction log is a FINAL_OUT exactly when the location
\* the case moved to is a delivery site, every other EXIT is a TRANSFER_OUT, and
\* every ENTRY is an IN.
C4_ExitKind ==
    \A i \in Rows(transaction_log) :
        LET t == transaction_log[i]
        IN  /\ t.TxType \in {"IN", "OUT"}
            /\ t.TxType = "IN" => t.TxType_Refined = "IN"
            /\ t.TxType = "OUT" =>
                  /\ t.TxType_Refined = "FINAL_OUT" <=> t.Loc_To \in DeliverySites
                  /\ t.Loc_To \notin DeliverySites => t.TxType_Refined = "TRANSFER_OUT"

\* a case delivered from a warehouse to MIR
C4_Witness ==
    /\ pc = "classified"
    /\ \E i \in Rows(transaction_log) :
          /\ transaction_log[i].TxType = "OUT"
          /\ transaction_log[i].Location = "DSV Indoor"
          /\ transaction_log[i].Loc_To = "MIR"
          /\ transaction_log[i].TxType_Refined = "FINAL_OUT"

\* C5: a case with n >= 1 events has in the transaction log exactly n IN
\* transactions, one per event at the event's location and one of them from
\* SOURCE, and exactly n - 1 OUT transactions, also when events share a timestamp
\* (stated for the cases no two of whose events are at the same location, so
\* that no event repeats another).
C5_EntryExitCounts ==
    pc \in {"classified", "ledger", "integrity", "dead_stock", "summary"} =>
        \A c \in Cases :
            LET ev == {i \in Rows(raw_events) : raw_events[i].Case_No = c}
                distinct == \A i, j \in ev : i # j => raw_events[i].Location # raw_events[j].Location
                ins == {k \in Rows(transaction_log) :
                           transaction_log[k].Case_No = c /\ transaction_log[k].TxType = "IN"}
                outs == {k \in Rows(transaction_log) :
                            transaction_log[k].Case_No = c /\ transaction_log[k].TxType = "OUT"}
            IN  ev # {} /\ distinct =>
                   /\ Cardinality(ins) = Cardinality(ev)
                   /\ Cardinality(outs) = Cardinality(ev) - 1
                   /\ Cardinality({k \in ins : transaction_log[k].Loc_From = "SOURCE"}) = 1
                   /\ \A l \in Locations :
                         Cardinality({k \in ins : transaction_log[k].Location = l})
                            = Cardinality({i \in ev : raw_events[i].Location = l})

\* every case's events carry one quantity, at pairwise distinct timestamps
SameQtyDistinctTimes ==
    \A i, j \in Rows(raw_events) :
        i # j /\ raw_events[i].Case_No = raw_events[j].Case_No =>
            /\ raw_events[i].Date # raw_events[j].Date
            /\ raw_events[i].Qty = raw_events[j].Qty

\* event i is the latest of its case
Latest(i) ==
    \A j \in Rows(raw_events) :
        raw_events[j].Case_No = raw_events[i].Case_No => raw_events[j].Date <= raw_events[i].Date

\* C6: when every case's events carry one quantity q at distinct timestamps, the
\* daily ledger shows at each location the inbound of every visit and the
\* outbound of every visit the case moved on from, so that a location closes with
\* the quantities of the cases whose latest event is there (0 if none).
C6_Conservation ==
    pc = "ledger" /\ SameQtyDistinctTimes =>
        \A l \in Locations :
            LET at == {k \in Rows(daily_stock) : daily_stock[k].Location = l}
                visits == [i \in Rows(raw_events) |->
                              IF raw_events[i].Location = l THEN raw_events[i].Qty ELSE 0]
                stays == [i \in Rows(raw_events) |->
                              IF raw_events[i].Location = l /\ Latest(i) THEN raw_events[i].Qty ELSE 0]
            IN  /\ Sum([k \in Rows(daily_stock) |-> IF k \in at THEN daily_stock[k].Inbound ELSE 0])
                      = Sum(visits)
                /\ Sum([k \in Rows(daily_stock) |-> IF k \in at THEN daily_stock[k].Total_Outbound ELSE 0])
                      = Sum(visits) - Sum(stays)
                /\ \A k \in at :
                      (\A n \in at : daily_stock[n].Date <= daily_stock[k].Date)
                         => daily_stock[k].Closing_Stock = Sum(stays)

\* a case moved from DSV Outdoor to DSV Indoor: Outdoor closes at 0, Indoor at q
C6_Witness ==
    /\ pc = "ledger"
    /\ SameQtyDistinctTimes
    /\ Len(raw_events) = 2
    /\ raw_events[1].Case_No = raw_events[2].Case_No
    /\ raw_events[1].Location = "DSV Outdoor" /\ raw_events[2].Location = "DSV Indoor"
    /\ DayOf(raw_events[1].Date) < DayOf(raw_events[2].Date)
    /\ \E i, j, k \in Rows(daily_stock) :
          /\ daily_stock[i].Location = "DSV Outdoor" /\ daily_stock[i].Inbound = raw_events[1].Qty
          /\ daily_stock[j].Location = "DSV Outdoor" /\ daily_stock[j].Transfer_Out = raw_events[1].Qty
          /\ daily_stock[j].Closing_Stock = 0
          /\ daily_stock[k].Location = "DSV Indoor" /\ daily_stock[k].Closing_Stock = raw_events[1].Qty

\* C7: the IN at a delivery site is in the transaction log, and the daily ledger
\* has no row whose location is a delivery site.
C7_NoSiteRows ==
    /\ \A i \in Rows(raw_events) :
          /\ pc \in {"classified", "ledger", "integrity", "dead_stock", "summary"}
          /\ raw_events[i].Location \in DeliverySites
          /\ \A j \in Rows(raw_events) :
                j # i /\ raw_events[j].Case_No = raw_events[i].Case_No =>
                   raw_events[j].Date < raw_events[i].Date
          => \E k \in Rows(transaction_log) :
                /\ transaction_log[k].TxType = "IN"
                /\ transaction_log[k].Location = raw_events[i].Location
                /\ transaction_log[k].Case_No = raw_events[i].Case_No
    /\ \A i \in Rows(daily_stock) : daily_stock[i].Location \notin DeliverySites

\* C8: no ledger of any builder has a row whose location is UNKNOWN or UNK.
C8_NoUnknownRows ==
    /\ \A i \in Rows(daily_stock) : daily_stock[i].Location \notin {"UNKNOWN", "UNK"}
    /\ \A i \in Rows(engine_daily) : engine_daily[i].Loc \notin {"UNKNOWN", "UNK"}
    /\ \A i \in Rows(monthly_stock_detail) : monthly_stock_detail[i].Location \notin {"UNKNOWN", "UNK"}

\* C9: a location has a row for every period between its first and its last
\* active period, and a row of a period without activity carries the stock forward.
C9_NoGaps ==
    /\ \A i, j \in Rows(daily_stock) :
          daily_stock[i].Location = daily_stock[j].Location =>
             \A d \in (DayOf(daily_stock[i].Date) + 1)..(DayOf(daily_stock[j].Date) - 1) :
                \E k \in Rows(daily_stock) :
                   /\ daily_stock[k].Location = daily_stock[i].Location
                   /\ DayOf(daily_stock[k].Date) = d
    /\ \A i, j \in Rows(engine_daily) :
          engine_daily[i].Loc = engine_daily[j].Loc =>
             \A d \in (DayOf(engine_daily[i].Date) + 1)..(DayOf(engine_daily[j].Date) - 1) :
                \E k \in Rows(engine_daily) :
                   /\ engine_daily[k].Loc = engine_daily[i].Loc
                   /\ DayOf(engine_daily[k].Date) = d
    /\ \A i, j \in Rows(monthly_stock_detail) :
          /\ monthly_stock_detail[i].Location = monthly_stock_detail[j].Location
          /\ monthly_stock_detail[i].Inbound_Qty + monthly_stock_detail[i].Outbound_Qty > 0
          /\ monthly_stock_detail[j].Inbound_Qty + monthly_stock_detail[j].Outbound_Qty > 0
          => \A m \in (monthly_stock_detail[i].YearMonth + 1)..(monthly_stock_detail[j].YearMonth - 1) :
                \E k \in Rows(monthly_stock_detail) :
                   /\ monthly_stock_detail[k].Location = monthly_stock_detail[i].Location
                   /\ monthly_stock_detail[k].YearMonth = m
    /\ \A i \in Rows(monthly_stock_detail) :
          monthly_stock_detail[i].Inbound_Qty = 0 /\ monthly_stock_detail[i].Outbound_Qty = 0 =>
             monthly_stock_detail[i].Closing_Stock = monthly_stock_detail[i].Opening_Stock

\* the place of event i among the events of its case: by timestamp, ties by input order
Rank(i) ==
    Cardinality({k \in Rows(raw_events) :
        /\ raw_events[k].Case_No = raw_events[i].Case_No
        /\ \/ raw_events[k].Date < raw_events[i].Date
           \/ raw_events[k].Date = raw_events[i].Date /\ k < i})

DistinctTimes ==
    \A i, j \in Rows(raw_events) :
        i # j /\ raw_events[i].Case_No = raw_events[j].Case_No =>
            raw_events[i].Date # raw_events[j].Date

\* the events in the order the permutation p of their positions gives
Reordered(p) == [i \in Rows(raw_events) |-> raw_events[p[i]]]

\* C11: when the events of every case have pairwise distinct timestamps, the
\* transaction log is the same ordered list for every order in which the events
\* are supplied.
C11_OrderIndependent ==
    pc = "classified" /\ DistinctTimes =>
        \A p \in Permutations(Rows(raw_events)) :
            create_transaction_log(Reordered(p)) = transaction_log

\* a case supplied latest event first: its EXIT still leaves the earlier location
C11_Witness ==
    /\ pc = "classified"
    /\ Len(raw_events) = 2
    /\ raw_events[1].Case_No = raw_events[2].Case_No
    /\ raw_events[1].Date > raw_events[2].Date
    /\ raw_events[1].Location # raw_events[2].Location
    /\ \E n \in Rows(transaction_log) :
          /\ transaction_log[n].TxType = "OUT"
          /\ transaction_log[n].Location = raw_events[2].Location
          /\ transaction_log[n].Loc_To = raw_events[1].Location

\* the events of case c, in input order
CaseEvents(c) == SelectSeq(raw_events, LAMBDA e : e.Case_No = c)

\* the per-case logs, concatenated in the order of the sequence cs of cases
RECURSIVE MergedLogs(_)
MergedLogs(cs) ==
    IF cs = <<>> THEN <<>>
    ELSE create_transaction_log(CaseEvents(cs[1])) \o MergedLogs(Tail(cs))

\* C12: the transactions of a case in the log, content and order, are what
\* create_transaction_log makes of that case's events alone, and the daily ledger
\* is the ledger of the per-case logs merged in any order of the cases.
C12_CasesIndependent ==
    /\ pc = "classified" =>
          \A c \in Cases :
              SelectSeq(transaction_log, LAMBDA t : t.Case_No = c)
                 = create_transaction_log(CaseEvents(c))
    /\ pc = "ledger" =>
          \A cs \in {<<"C1", "C2">>, <<"C2", "C1">>} :
              calculate_daily_stock(DateColumnToDate(MergedLogs(cs))) = daily_stock

\* two cases at one location on one day, the later case supplied first: the
\* ledger row adds their quantities
C12_Witness ==
    /\ pc = "ledger"
    /\ Len(raw_events) = 2
    /\ raw_events[1].Case_No = "C2" /\ raw_events[2].Case_No = "C1"
    /\ raw_events[1].Location = raw_events[2].Location
    /\ DayOf(raw_events[1].Date) = DayOf(raw_events[2].Date)
    /\ \E i \in Rows(daily_stock) :
          /\ daily_stock[i].Location = raw_events[1].Location
          /\ daily_stock[i].Inbound = raw_events[1].Qty + raw_events[2].Qty

\* the cases analyze_dead_stock flagged
Flagged == {dead_stock[n].Case_No : n \in Rows(dead_stock)}

\* the events of case c, and the timestamp of its most recent one
EventsOf(c) == {i \in Rows(raw_events) : raw_events[i].Case_No = c}

LastEventDate(c) ==
    CHOOSE d \in {raw_events[i].Date : i \in EventsOf(c)} :
        \A i \in EventsOf(c) : raw_events[i].Date <= d

\* C18: a case is flagged exactly when the whole days between the analysis time
\* and its most recent event exceed threshold_days: never at an age of
\* threshold_days or less.
C18_FlaggedIffOlder ==
    pc = "dead_stock" =>
        \A c \in Cases :
            EventsOf(c) # {} =>
                (c \in Flagged <=> DaysSince(current_date, LastEventDate(c)) > threshold_days)

\* C19: a flagged case is reported at the location of its most recent event and
\* with the quantity its events carry, whether it has one event or several.
C19_LastKnownLocation ==
    pc = "dead_stock" =>
        \A n \in Rows(dead_stock) :
            LET c == dead_stock[n].Case_No
            IN  \A i \in EventsOf(c) :
                   /\ (\A j \in EventsOf(c) : j # i => raw_events[j].Date < raw_events[i].Date)
                         => dead_stock[n].Location = raw_events[i].Location
                   /\ (\A j \in EventsOf(c) : raw_events[j].Qty = raw_events[i].Qty)
                         => dead_stock[n].Qty = raw_events[i].Qty

\* the ledger the validator was given
Checked == warehouse_monthly.monthly_stock_detail

\* what row r should close with, and whether it is off by more than 0.01
ExpectedClosing(r) == r.Opening_Stock + r.Inbound_Qty - r.Outbound_Qty

OffBalance(r) ==
    \/ (r.Closing_Stock - ExpectedClosing(r)) * 100 > 1
    \/ (ExpectedClosing(r) - r.Closing_Stock) * 100 > 1

\* rows i and j are chronologically adjacent periods of one location
AdjacentPeriods(l, i, j) ==
    /\ l[i].Location = l[j].Location
    /\ l[i].YearMonth < l[j].YearMonth
    /\ ~ \E k \in Rows(l) :
          /\ l[k].Location = l[i].Location
          /\ l[i].YearMonth < l[k].YearMonth
          /\ l[k].YearMonth < l[j].YearMonth

\* the opening of row j is off the closing of row i by more than 0.01
Break(l, i, j) ==
    \/ (l[j].Opening_Stock - l[i].Closing_Stock) * 100 > 1
    \/ (l[i].Closing_Stock - l[j].Opening_Stock) * 100 > 1

\* row k is the ledger's only defect: it alone is off balance, no row closes
\* below 0, and with the closing of row k set right the ledger opens every
\* location at 0 and is continuous
SingleDefect(k) ==
    LET repaired == [i \in Rows(Checked) |->
                        IF i = k THEN [Checked[i] EXCEPT !.Closing_Stock = ExpectedClosing(Checked[i])]
                        ELSE Checked[i]]
    IN  /\ OffBalance(Checked[k])
        /\ \A i \in Rows(Checked) : i # k => Checked[i].Closing_Stock = ExpectedClosing(Checked[i])
        /\ \A i \in Rows(Checked) : Checked[i].Closing_Stock >= 0
        /\ \A j \in Rows(repaired) :
              IF \E i \in Rows(repaired) : AdjacentPeriods(repaired, i, j)
              THEN \A i \in Rows(repaired) :
                      AdjacentPeriods(repaired, i, j) => repaired[j].Opening_Stock = repaired[i].Closing_Stock
              ELSE repaired[j].Opening_Stock = 0

\* error e is the stock mismatch of row r, with the expected and the stored closing
NamesRow(e, r) ==
    /\ e.kind = "Stock mismatch"
    /\ e.Location = r.Location /\ e.YearMonth = r.YearMonth
    /\ e.Expected = ExpectedClosing(r) /\ e.Got = r.Closing_Stock

\* C13 as stated: a ledger whose only defect is one row's stored closing gets
\* exactly one error, naming the row's location and period, the expected and the
\* actual closing.
C13_ExactlyOneError ==
    pc = "validated" =>
        \A k \in Rows(Checked) :
            SingleDefect(k) =>
                /\ Len(validation_result.errors) = 1
                /\ NamesRow(validation_result.errors[1], Checked[k])

\* C13 amended: such a ledger gets exactly one stock-mismatch error, naming the
\* row's location and period, the expected and the actual closing, and one more
\* error that the same closing causes: the continuity error of the location's
\* next period or, when the row is the location's last, its balance error.
C13_OneMismatchError ==
    pc = "validated" =>
        \A k \in Rows(Checked) :
            LET errors == validation_result.errors
                mismatches == {n \in Rows(errors) : errors[n].kind = "Stock mismatch"}
                others == {n \in Rows(errors) : errors[n].kind # "Stock mismatch"}
            IN  /\ OffBalance(Checked[k]) /\ (\A i \in Rows(Checked) : i # k => ~OffBalance(Checked[i]))
                   => /\ Cardinality(mismatches) = 1
                      /\ \A n \in mismatches : NamesRow(errors[n], Checked[k])
                /\ SingleDefect(k)
                   => /\ Cardinality(others) = 1
                      /\ \A n \in others :
                            /\ errors[n].Location = Checked[k].Location
                            /\ IF \E j \in Rows(Checked) : AdjacentPeriods(Checked, k, j)
                               THEN /\ errors[n].kind = "Continuity error"
                                    /\ errors[n].PrevMonth = Checked[k].YearMonth
                               ELSE errors[n].kind = "Balance error"

\* the ledger of the example: 100 in stock, then 20 in and 50 out stored as 60
C13_Witness ==
    /\ pc = "validated"
    /\ Len(Checked) = 2
    /\ ~OffBalance(Checked[1])
    /\ SingleDefect(2)
    /\ Checked[2].Opening_Stock = 100 /\ Checked[2].Inbound_Qty = 20
    /\ Checked[2].Outbound_Qty = 50 /\ Checked[2].Closing_Stock = 60
    /\ \E n \in Rows(validation_result.errors) :
          /\ validation_result.errors[n].kind = "Stock mismatch"
          /\ validation_result.errors[n].Expected = 70
          /\ validation_result.errors[n].Got = 60

\* C14: the validator reports a continuity error, and does not pass, whenever
\* some location has two chronologically adjacent periods whose closing and
\* opening differ by more than 0.01 (the error names the location and the two
\* periods), and reports no continuity error when every adjacent pair agrees.
C14_ContinuityReported ==
    pc = "validated" =>
        LET errors == validation_result.errors
            continuity == {n \in Rows(errors) : errors[n].kind = "Continuity error"}
        IN  /\ \A i, j \in Rows(Checked) :
                  AdjacentPeriods(Checked, i, j) /\ Break(Checked, i, j) =>
                     /\ validation_result.validation_passed = FALSE
                     /\ \E n \in continuity :
                           /\ errors[n].Location = Checked[i].Location
                           /\ errors[n].PrevMonth = Checked[i].YearMonth
                           /\ errors[n].YearMonth = Checked[j].YearMonth
            /\ (\A i, j \in Rows(Checked) : AdjacentPeriods(Checked, i, j) => ~Break(Checked, i, j))
                  => continuity = {}

\* a ledger of balanced rows whose second period opens above the first's closing
C14_Witness ==
    /\ pc = "validated"
    /\ \A i \in Rows(Checked) : ~OffBalance(Checked[i])
    /\ Len(Checked) = 2
    /\ AdjacentPeriods(Checked, 1, 2)
    /\ Checked[1].Closing_Stock < Checked[2].Opening_Stock
    /\ \E n \in Rows(validation_result.errors) : validation_result.errors[n].kind = "Continuity error"
    /\ validation_result.validation_passed = FALSE

\* every row balances, adjacent periods are continuous and every location's last
\* closing is its total inbound minus its total outbound
ValidLedger(l) ==
    /\ \A i \in Rows(l) : l[i].Closing_Stock = ExpectedClosing(l[i])
    /\ \A i, j \in Rows(l) : AdjacentPeriods(l, i, j) => l[j].Opening_Stock = l[i].Closing_Stock
    /\ \A i \in Rows(l) :
          (\A k \in Rows(l) : l[k].Location = l[i].Location => l[k].YearMonth <= l[i].YearMonth)
             => l[i].Closing_Stock =
                   Sum([k \in Rows(l) |-> IF l[k].Location = l[i].Location
                                          THEN l[k].Inbound_Qty - l[k].Outbound_Qty ELSE 0])

\* C15: a ledger that satisfies balance, continuity and aggregate balance and has
\* rows closing below 0 gets a warning and no error, and passes validation.
C15_NegativeIsWarning ==
    pc = "validated" /\ ValidLedger(Checked) /\ (\E i \in Rows(Checked) : Checked[i].Closing_Stock < 0) =>
        /\ validation_result.warnings # <<>>
        /\ validation_result.errors = <<>>
        /\ validation_result.validation_passed = TRUE

\* a location that ships 50 it never received closes at -50
C15_Witness ==
    /\ pc = "validated"
    /\ ValidLedger(Checked)
    /\ \E i \in Rows(Checked) : Checked[i].Outbound_Qty = 50 /\ Checked[i].Closing_Stock = -50
    /\ Len(validation_result.warnings) = 1
    /\ validation_result.validation_passed = TRUE

\* the records reconcile returned
Compared == reconcile_result.frame

\* the locations of the daily ledger and of the snapshot
LedgerLocs == {engine_daily[i].Loc : i \in Rows(engine_daily)}

SnapshotLocs == {onhand_movements.rows[k].Loc_To : k \in Rows(onhand_movements.rows)}

\* the ledger side of a location: the closing of its most recent period, 0 if
\* the ledger does not have the location
LedgerClosing(loc) ==
    IF loc \notin LedgerLocs THEN 0
    ELSE LET i == CHOOSE k \in Rows(engine_daily) :
                      /\ engine_daily[k].Loc = loc
                      /\ \A j \in Rows(engine_daily) :
                            engine_daily[j].Loc = loc => engine_daily[j].Date <= engine_daily[k].Date
         IN  engine_daily[i].Closing

\* the snapshot side of a location: its counted quantity, 0 if the snapshot does
\* not have the location
SnapshotQuantity(loc) ==
    Sum([k \in Rows(onhand_movements.rows) |->
            IF onhand_movements.rows[k].Loc_To = loc THEN onhand_movements.rows[k].Qty ELSE 0])

\* C16: every record reconcile returns has delta = snapshot quantity - ledger
\* closing, status OK iff |delta| <= 5 and ATTENTION otherwise, severity HIGH iff
\* |delta| > 10, MEDIUM iff 5 < |delta| <= 10, LOW iff |delta| <= 5; a snapshot
\* handed over as a DataFrame never makes reconcile raise.
C16_DeltaStatusSeverity ==
    /\ \A n \in Rows(Compared) :
          LET r == Compared[n]
              d == IF r.Delta < 0 THEN -r.Delta ELSE r.Delta
          IN  /\ r.Delta = r.OnHand_Qty - r.Tx_Closing
              /\ r.Delta = SnapshotQuantity(r.Loc) - LedgerClosing(r.Loc)
              /\ r.Status \in {"OK", "ATTENTION"}
              /\ r.Status = "OK" <=> d <= 5
              /\ r.Alert_Level \in {"LOW", "MEDIUM", "HIGH"}
              /\ r.Alert_Level = "HIGH" <=> d > 10
              /\ r.Alert_Level = "MEDIUM" <=> (5 < d /\ d <= 10)
              /\ r.Alert_Level = "LOW" <=> d <= 5
    /\ onhand_movements.type = "DataFrame" => ~reconcile_result.raised

\* ledger 812 against snapshot 820: delta 8, ATTENTION, MEDIUM
C16_Witness ==
    /\ pc = "reconciled"
    /\ \E n \in Rows(Compared) :
          /\ Compared[n].Tx_Closing = 812 /\ Compared[n].OnHand_Qty = 820
          /\ Compared[n].Delta = 8
          /\ Compared[n].Status = "ATTENTION" /\ Compared[n].Alert_Level = "MEDIUM"

\* C17: once reconcile has run, its output has exactly one record for every
\* location of the ledger or of the snapshot, with the closing of the location's
\* most recent period on the ledger side and the snapshot quantity on the other,
\* a missing side being 0; also when one of the two inputs has no rows.
C17_AllLocationsKept ==
    pc \notin {"movements", "daily"} =>
        \A loc \in LedgerLocs \cup SnapshotLocs :
            /\ Cardinality({n \in Rows(Compared) : Compared[n].Loc = loc}) = 1
            /\ \A n \in Rows(Compared) :
                  Compared[n].Loc = loc =>
                     /\ Compared[n].Tx_Closing = LedgerClosing(loc)
                     /\ Compared[n].OnHand_Qty = SnapshotQuantity(loc)


----------------------------------------------------------------------------
(* map_loc *)

Mapped == pc = "mapped"

\* the rules of LOC_MAP whose pattern matches the whole of str, case-insensitively
MatchingRules(str) == {i \in 1..Len(LOC_MAP) : FullMatch(LOC_MAP[i][1], str)}

\* the canonical name of the earliest rule of the table that matches str,
\* str itself when no rule does
FirstMatchOrSelf(str) ==
    IF MatchingRules(str) = {} THEN str
    ELSE LOC_MAP[CHOOSE i \in MatchingRules(str) : \A j \in MatchingRules(str) : i <= j][2]

\* C20 as stated: a present raw code is mapped to the canonical name of the
\* first rule, in table order, that matches the whole input case-insensitively,
\* and an input that matches no rule is returned verbatim.
C20_FirstMatchOrVerbatim ==
    (Mapped /\ raw_code # MissingCode) => canonical = FirstMatchOrSelf(raw_code)

\* C20 amended: map_loc first strips the whitespace around the input; the
\* first rule, in table order, matching the whole stripped input
\* case-insensitively gives the canonical name, and a stripped input matching
\* no rule is returned as it is, never as UNKNOWN.
C20_StrippedFirstMatch ==
    (Mapped /\ raw_code # MissingCode) =>
        /\ canonical = FirstMatchOrSelf(Strip(raw_code))
        /\ raw_code = <<"M", "4", "4", "-", "B", "A", "Y", "0", "7">> => canonical = <<"D", "S", "V", " ", "I", "n", "d", "o", "o", "r">>
        /\ MatchingRules(Strip(raw_code)) = {} =>
               /\ canonical = Strip(raw_code)
               /\ Strip(raw_code) # <<"U", "N", "K", "N", "O", "W", "N">> => canonical # <<"U", "N", "K", "N", "O", "W", "N">>

\* an input that several rules with different canonical names match
C20_Witness ==
    /\ Mapped
    /\ raw_code # MissingCode
    /\ \E i, j \in MatchingRules(Strip(raw_code)) : LOC_MAP[i][2] # LOC_MAP[j][2]
    /\ canonical = LOC_MAP[3][2]


\* C21: map_loc returns UNKNOWN for a missing input and for the empty string.
C21_MissingOrEmptyIsUnknown ==
    (Mapped /\ raw_code \in {MissingCode, <<>>}) =>
        canonical = <<"U", "N", "K", "N", "O", "W", "N">>


----------------------------------------------------------------------------
(* map_site *)

SiteNames == {<<"A", "G", "I">>, <<"D", "A", "S">>, <<"M", "I", "R">>, <<"S", "H", "U">>}

\* the sites whose name the candidate holds, in any case
SitesIn(c) == IF c = MissingCode THEN {} ELSE {n \in SiteNames : Contains(Folded(n), Folded(c))}

\* C22: the candidates are examined in the order site field, destination,
\* origin; the result is a site of the first candidate that holds a site name
\* (a missing or non-matching candidate falls through), and UNK exactly when no
\* candidate holds one.
C22_FirstMatchingCandidate ==
    pc = "site" =>
        LET matching == {i \in 1..3 : SitesIn(candidates[i]) # {}}
        IN  IF matching = {} THEN site = <<"U", "N", "K">>
            ELSE site \in SitesIn(candidates[CHOOSE i \in matching : \A j \in matching : i <= j])

\* the site field is present without a site name, and destination and origin
\* name different sites: the destination's site is returned
C22_Witness ==
    /\ pc = "site"
    /\ candidates[1] # MissingCode
    /\ SitesIn(candidates[1]) = {}
    /\ SitesIn(candidates[2]) # {}
    /\ SitesIn(candidates[3]) # {}
    /\ SitesIn(candidates[2]) \cap SitesIn(candidates[3]) = {}
    /\ site \in SitesIn(candidates[2])


----------------------------------------------------------------------------
(* The extractors *)

Extracted == pc \in {"processed", "extracted"}

DisallowedWords ==
    <<<<"e", "t", "d">>, <<"e", "t", "a">>, <<"a", "t", "d">>, <<"a", "t", "a">>, <<"d", "a", "t", "e">>, <<"t", "i", "m", "e">>, <<"d", "e", "p", "a", "r", "t", "u", "r", "e">>, <<"a", "r", "r", "i", "v", "a", "l">>>>

\* the name of the field holds one of the disallowed substrings, in any case
Disallowed(name) == \E k \in 1..Len(DisallowedWords) : Contains(DisallowedWords[k], Folded(name))

\* C23: no movement event comes from a field whose name holds one of etd, eta,
\* atd, ata, date, time, departure, arrival (case-insensitive), whatever else
\* the name holds and whatever the cell holds.
C23_NoEventFromDateField ==
    (Extracted /\ Disallowed(sheet.field)) => movements = <<>>

\* C24: every emitted event has a numeric quantity: the quantity cell as parsed
\* when it is numeric, and 1 when the cell is empty or not a number or the
\* sheet has no quantity column.
C24_QuantityNumericOrOne ==
    Extracted =>
        \A e \in 1..Len(movements) :
            /\ movements[e].Qty.kind = "num"
            /\ \E i \in 1..Len(sheet.rows) :
                  movements[e].Qty =
                      IF sheet.qty_col /\ sheet.rows[i].qty.kind = "num" THEN sheet.rows[i].qty
                      ELSE Num(1)

\* C25: a record without a case id yields no event: every event carries a case
\* id read from the sheet, and the records that have one still yield theirs.
C25_NoEventWithoutCaseId ==
    Extracted =>
        /\ \A e \in 1..Len(movements) :
              \E i \in 1..Len(sheet.rows) :
                  sheet.rows[i].case # NA /\ movements[e].Case_No = sheet.rows[i].case
        /\ Len(movements) <= Cardinality({i \in 1..Len(sheet.rows) : sheet.rows[i].case # NA})


----------------------------------------------------------------------------
(* Anomalies and failures of the classification *)

\* case c was observed at a delivery site and later at a warehouse
Reappears(c) ==
    \E i, j \in Rows(raw_events) :
        /\ raw_events[i].Case_No = c /\ raw_events[j].Case_No = c
        /\ raw_events[i].Location \in DeliverySites
        /\ raw_events[j].Location \notin DeliverySites
        /\ raw_events[i].Date < raw_events[j].Date

\* C26: a case observed at a warehouse after its delivery to a site carries a
\* warning in what the classifier returns, and its transactions are returned
\* all the same.
C26_ReentrySurfaced ==
    pc = "classified" =>
        \A c \in Cases :
            Reappears(c) =>
                \E k \in Rows(transaction_log) :
                    /\ transaction_log[k].Case_No = c
                    /\ \E f \in DOMAIN transaction_log[k] : f \in {"Warning", "Warnings", "Anomaly"}

\* the cases all of whose events are dated
Dated(c) ==
    /\ \E i \in Rows(raw_events) : raw_events[i].Case_No = c
    /\ \A i \in Rows(raw_events) : raw_events[i].Case_No = c => raw_events[i].Date # NaT

----------------------------------------------------------------------------
(* InventoryValidator *)

\* initial + sum(incoming[0..k]) - sum(outgoing[0..k]) over the first k rows
RECURSIVE RunningBalance(_, _, _)
RunningBalance(rows, initial, k) ==
    IF k = 0 THEN initial
    ELSE Minus(Plus(RunningBalance(rows, initial, k - 1), rows[k].Incoming), rows[k].Outgoing)

\* C28: the loop returns at every position the initial stock plus the incoming
\* minus the outgoing quantities so far, the vectorized calculation returns the
\* same sequence, and the validation reports that the two match.
C28_LoopEqualsVectorized ==
    pc = "inventory_validated" =>
        /\ \A k \in 1..Len(test_data.rows) :
              validation_results.inventory_loop[k] =
                  RunningBalance(test_data.rows, test_data.initial_stock, k)
        /\ validation_results.inventory_vectorized = validation_results.inventory_loop
        /\ validation_results.loop_vs_vectorized_match


----------------------------------------------------------------------------
(* Builders against validators *)

\* C29: a ledger the builders produce passes its validator: the monthly ledger
\* of create_proper_monthly_warehouse_analysis gives no error in
\* validate_stock_logic, and the daily ledger of calculate_daily_stock gives
\* status PASS with 0 errors in validate_stock_integrity.
C29_BuiltLedgersPass ==
    /\ (pc = "validated" /\ df # <<>>) =>
          /\ validation_result.errors = <<>>
          /\ validation_result.validation_passed
    /\ (pc = "integrity" /\ daily_stock # <<>>) =>
          /\ integrity_results.status = "PASS"
          /\ integrity_results.errors = 0

\* a built monthly ledger with stock carried from one month into the next and
\* with an outbound quantity, checked without error
C29_Witness ==
    /\ pc = "validated"
    /\ df # <<>>
    /\ \E i, j \in Rows(monthly_stock_detail) :
          /\ monthly_stock_detail[i].Location = monthly_stock_detail[j].Location
          /\ monthly_stock_detail[i].YearMonth < monthly_stock_detail[j].YearMonth
          /\ monthly_stock_detail[i].Inbound_Qty > 0
          /\ monthly_stock_detail[i].Closing_Stock # 0
          /\ monthly_stock_detail[j].Opening_Stock = monthly_stock_detail[i].Closing_Stock
    /\ \E k \in Rows(monthly_stock_detail) : monthly_stock_detail[k].Outbound_Qty > 0
    /\ validation_result.total_records_checked = Len(monthly_stock_detail)
    /\ validation_result.errors = <<>>

\* C30: the later stages leave the transaction log as the classifier returned
\* it: the same rows with the same timestamps and the same columns.
C30_LogUnchanged ==
    pc \in {"classified", "ledger", "integrity", "dead_stock", "summary"} =>
        transaction_log = create_transaction_log(raw_events)

============================================================================
